---------------------------- MODULE Spec2Model ----------------------------
(***************************************************************************)
(* A model of the MetaWin meta-analysis engine (MetaWinAnalysisFunctions,  *)
(* MetaWinPubBiasFunctions, MetaWinData, MetaWinTree).                      *)
(*                                                                         *)
(* Floating point values are modelled as exact rationals <<num, den>> with *)
(* den > 0, extended by the three IEEE specials: <<0,0>> is NaN, <<1,0>>   *)
(* is +inf and <<-1,0>> is -inf.  Python lists are TLA+ sequences (1-based *)
(* where Python is 0-based).  Chi-square and normal/t quantiles are not    *)
(* computed: the reported values that depend on them are left out.         *)
(***************************************************************************)
EXTENDS Integers, Sequences, FiniteSets, TLC

VARIABLES
    data,       \* the data source: rows, cell values, include flags, column filters
    options,    \* the options record of the analysis being run
    pc,         \* position of the running analyzer: "idle", a loop name, or "done"
    loc,        \* local variables of the running analyzer that live across loop steps
    out         \* what the last analyzer call returned (or the exception it raised)

vars == <<data, options, pc, loc, out>>

-----------------------------------------------------------------------------
(* Generic helpers *)

Abs(x) == IF x < 0 THEN -x ELSE x

Sign(x) == IF x > 0 THEN 1 ELSE IF x < 0 THEN -1 ELSE 0

RECURSIVE Gcd(_, _)
Gcd(a, b) == IF b = 0 THEN a ELSE Gcd(b, a % b)

Range(s) == {s[i] : i \in 1..Len(s)}

\* the list s with its elements evaluated once (a function constructor by itself is
\* evaluated anew at every application)
List(s) == <<>> \o s

RECURSIVE SumSeq(_)
SumSeq(s) == IF s = <<>> THEN 0 ELSE Head(s) + SumSeq(Tail(s))

MinOfSet(S) == CHOOSE x \in S : \A y \in S : x <= y

MaxOfSet(S) == CHOOSE x \in S : \A y \in S : x >= y

\* sorted(set(...)) over integer-coded labels
RECURSIVE SortedSeq(_)
SortedSeq(S) == IF S = {} THEN <<>>
                ELSE LET m == MinOfSet(S) IN <<m>> \o SortedSeq(S \ {m})

\* the elements of s at the positions where mask is TRUE (numpy boolean indexing)
RECURSIVE MaskSeq(_, _)
MaskSeq(s, mask) ==
    IF s = <<>> THEN <<>>
    ELSE (IF Head(mask) THEN <<Head(s)>> ELSE <<>>) \o MaskSeq(Tail(s), Tail(mask))

Perms(n) == {p \in [1..n -> 1..n] : \A i, j \in 1..n : p[i] = p[j] => i = j}

-----------------------------------------------------------------------------
(* Extended rational arithmetic standing for numpy float64 arithmetic *)

NaN == <<0, 0>>
PosInf == <<1, 0>>
NegInf == <<-1, 0>>

IsNaN(a) == a[2] = 0 /\ a[1] = 0
IsFinite(a) == a[2] # 0

Norm(n, d) ==
    IF d = 0 THEN <<Sign(n), 0>>
    ELSE LET g == Gcd(Abs(n), Abs(d))
             s == IF d < 0 THEN -1 ELSE 1
         IN <<s * (n \div g), s * (d \div g)>>

R(n) == <<n, 1>>
Zero == R(0)
One == R(1)

RAdd(a, b) ==
    IF IsFinite(a) /\ IsFinite(b)
    THEN Norm(a[1] * (b[2] \div Gcd(a[2], b[2])) + b[1] * (a[2] \div Gcd(a[2], b[2])),
              a[2] * (b[2] \div Gcd(a[2], b[2])))
    ELSE IF IsNaN(a) \/ IsNaN(b) THEN NaN
    ELSE IF ~IsFinite(a) /\ ~IsFinite(b) THEN (IF a = b THEN a ELSE NaN)
    ELSE IF ~IsFinite(a) THEN a ELSE b

RNeg(a) == <<-a[1], a[2]>>

RSub(a, b) == RAdd(a, RNeg(b))

RMul(a, b) == Norm(a[1] * b[1], a[2] * b[2])

RRecip(a) == Norm(a[2], a[1])

\* numpy float64 division: x/0 is +-inf or nan, never an exception
RDiv(a, b) == RMul(a, RRecip(b))

RSquare(a) == RMul(a, a)

RLt(a, b) ==
    IF IsNaN(a) \/ IsNaN(b) THEN FALSE
    ELSE IF IsFinite(a) /\ IsFinite(b) THEN a[1] * b[2] < b[1] * a[2]
    ELSE IF ~IsFinite(a) /\ ~IsFinite(b) THEN a[1] < b[1]
    ELSE IF ~IsFinite(a) THEN a[1] < 0
    ELSE b[1] > 0

RLe(a, b) == IF IsNaN(a) \/ IsNaN(b) THEN FALSE ELSE ~RLt(b, a)

RGe(a, b) == RLe(b, a)

RGt(a, b) == RLt(b, a)

RAbs(a) == <<Abs(a[1]), a[2]>>

\* Python's built-in max(a, b): b only if b > a, so a NaN first argument is returned
PyMax(a, b) == IF RGt(b, a) THEN b ELSE a

RECURSIVE RSum(_)
RSum(s) == IF s = <<>> THEN Zero ELSE RAdd(Head(s), RSum(Tail(s)))

\* element-wise helpers over equally long sequences of rationals
RMulSeq(a, b) == List([i \in 1..Len(a) |-> RMul(a[i], b[i])])


-----------------------------------------------------------------------------
(* The data source: MetaWinData, MetaWinRow, MetaWinCol, MetaWinValue *)

\* a cell holds no value, a number (int or float after import) or a non-numeric string
NoneCell == [t |-> "none", n |-> 0, s |-> ""]
NumCell(k) == [t |-> "num", n |-> k, s |-> ""]
StrCell(x) == [t |-> "str", n |-> 0, s |-> x]

\* the columns of the modelled table
Cols == {"e", "v", "g1", "g2", "g3", "x", "ord", "tip", "ns"}

\* the strings that occur as group labels, in the order Python sorts them
LabelNames == <<"0", "1", "2", "3", "A", "B", "C", "D", "a", "b", "c", "d">>

LabelRank(s) == CHOOSE i \in 1..Len(LabelNames) : LabelNames[i] = s

\* sorted(set(...)) over label strings
RECURSIVE SortedLabels(_)
SortedLabels(S) ==
    IF S = {} THEN <<>>
    ELSE LET m == CHOOSE x \in S : \A y \in S : LabelRank(x) <= LabelRank(y)
         IN <<m>> \o SortedLabels(S \ {m})

IdxSeq(n) == List([i \in 1..n |-> i])

\* str(d) as MetaWinRow.not_filtered applies it to a cell (None for an empty cell)
PyStr(cell) ==
    IF cell.t = "none" THEN "None"
    ELSE IF cell.t = "num" THEN ToString(cell.n)
    ELSE cell.s

\* MetaWinValue.is_number: float(value) succeeds
is_number(cell) == cell.t = "num"

\* MetaWinRow.not_filtered
not_filtered(row) ==
    /\ row.include_row
    /\ \A c \in Cols : PyStr(row.cells[c]) \notin data.group_filter[c]

VALUE_NUMBER == 0
VALUE_STRING == 1
VALUE_ANY == 2

\* MetaWinData.check_value: the cell's value converted as asked, NoneCell for None
check_value(r, c, value_type) ==
    LET x == data.rows[r].cells[c] IN
    IF x.t = "none" THEN NoneCell
    ELSE IF value_type = VALUE_NUMBER THEN (IF is_number(x) THEN x ELSE NoneCell)
    ELSE IF value_type = VALUE_STRING THEN StrCell(PyStr(x))
    ELSE x

IsNone(cell) == cell.t = "none"

\* output_filtered_bad: the two report blocks, each only if its list is not empty
output_filtered_bad(filtered, bad_data) ==
    (IF Len(filtered) > 0 THEN <<[kind |-> "prefiltered", arg |-> filtered]>> ELSE <<>>)
    \o (IF Len(bad_data) > 0 THEN <<[kind |-> "invalid", arg |-> bad_data]>> ELSE <<>>)

\* the shared filtering loop of the analyzers: valid[r] is the analyzer's own test of row r
FilterRows(valid) ==
    LET all == IdxSeq(Len(data.rows))
        keep == SelectSeq(all, LAMBDA r : not_filtered(data.rows[r]) /\ valid[r])
        bad == SelectSeq(all, LAMBDA r : not_filtered(data.rows[r]) /\ ~valid[r])
        filt == SelectSeq(all, LAMBDA r : ~not_filtered(data.rows[r]))
    IN [rows |-> keep,
        bad_data |-> List([i \in 1..Len(bad) |-> data.rows[bad[i]].label]),
        filtered |-> List([i \in 1..Len(filt) |-> data.rows[filt[i]].label])]

\* (e is not None) and (v is not None) and (v > 0)
ValidEV(opt, r) ==
    LET e == check_value(r, opt.effect_data, VALUE_NUMBER)
        v == check_value(r, opt.effect_vars, VALUE_NUMBER)
    IN ~IsNone(e) /\ ~IsNone(v) /\ v.n > 0

e_of(opt, rows) == List([i \in 1..Len(rows) |-> R(data.rows[rows[i]].cells[opt.effect_data].n)])
v_of(opt, rows) == List([i \in 1..Len(rows) |-> R(data.rows[rows[i]].cells[opt.effect_vars].n)])
w_of(opt, rows) == List([i \in 1..Len(rows) |-> RRecip(R(data.rows[rows[i]].cells[opt.effect_vars].n))])

-----------------------------------------------------------------------------
(* Basic calculations *)

\* mean_effect_var_and_q
mean_effect_var_and_q(e, w) ==
    LET sum_ew == RSum(RMulSeq(e, w))
        sum_w == RSum(w)
        sum_w2 == RSum(RMulSeq(w, w))
        mean_e == RDiv(sum_ew, sum_w)
        var_e == RDiv(One, sum_w)
        qt == RSum([i \in 1..Len(e) |-> RMul(w[i], RSquare(RSub(e[i], mean_e)))])
    IN [mean_e |-> mean_e, var_e |-> var_e, qt |-> qt, sum_w |-> sum_w,
        sum_w2 |-> sum_w2, sum_ew |-> sum_ew]


-----------------------------------------------------------------------------
(* Python values, where the code indexes into what may be a list, a string *)
(* or a number                                                             *)

PyList(items) == [py |-> "list", items |-> items, i |-> 0, s |-> "", b |-> FALSE]
PyString(s) == [py |-> "str", items |-> <<>>, i |-> 0, s |-> s, b |-> FALSE]
PyInt(i) == [py |-> "int", items |-> <<>>, i |-> i, s |-> "", b |-> FALSE]
PyBool(b) == [py |-> "bool", items |-> <<>>, i |-> 0, s |-> "", b |-> b]

\* the flattening of a sequence of sequences
RECURSIVE Flatten(_)
Flatten(ss) == IF ss = <<>> THEN <<>> ELSE Head(ss) \o Flatten(Tail(ss))

-----------------------------------------------------------------------------
(* median_effect *)

\* the orders argsort may return: every permutation that puts e into ascending order
\* (the order of equal values is not fixed by the default sort)
ArgSorts(e) ==
    {p \in Perms(Len(e)) : \A i \in 1..(Len(e) - 1) : RLe(e[p[i]], e[p[i + 1]])}

\* a median that never averages at the boundary of two effect sizes
RECURSIVE median_no_boundary(_, _, _, _, _)
median_no_boundary(tmp_e, tmp_w, i, rsum, midp) ==
    IF RLt(rsum, midp)
    THEN IF i + 1 > Len(tmp_e) THEN [exc |-> "IndexError", value |-> NaN]
         ELSE median_no_boundary(tmp_e, tmp_w, i + 1, RAdd(rsum, tmp_w[i + 1]), midp)
    ELSE [exc |-> "none", value |-> tmp_e[i]]

\* the while loop of median_effect and the return after it, on the sorted table; i is
\* one-based, and reading past the table raises IndexError
RECURSIVE median_loop(_, _, _, _, _)
median_loop(tmp_e, tmp_w, i, rsum, midp) ==
    IF RLt(rsum, midp)
    THEN IF i + 1 > Len(tmp_e) THEN [exc |-> "IndexError", value |-> NaN]
         ELSE median_loop(tmp_e, tmp_w, i + 1, RAdd(rsum, tmp_w[i + 1]), midp)
    ELSE IF rsum = midp /\ ~IsNaN(rsum)
    THEN IF i + 1 > Len(tmp_e) THEN [exc |-> "IndexError", value |-> NaN]
         ELSE [exc |-> "none", value |-> RDiv(RAdd(tmp_e[i], tmp_e[i + 1]), R(2))]
    ELSE [exc |-> "none", value |-> tmp_e[i]]

\* median_effect, with the order argsort returned
median_effect(e, w, order) ==
    IF Len(e) = 0 THEN [exc |-> "IndexError", value |-> NaN]
    ELSE median_loop(List([i \in 1..Len(e) |-> e[order[i]]]),
                     List([i \in 1..Len(e) |-> w[order[i]]]),
                     1, w[order[1]], RDiv(RSum(w), R(2)))

-----------------------------------------------------------------------------
(* calc_i2 *)

\* 100*(h2 - 1)/h2 without the clamp at 0
i2_unclamped(h2) == RDiv(RMul(R(100), RSub(h2, One)), h2)

\* max(0, 100*(h2 - 1)/h2), the I-squared of a squared H
i2_of_h2(h2) == PyMax(Zero, RDiv(RMul(R(100), RSub(h2, One)), h2))

\* the sign of se_ln_h and the exception its computation raises; math.log and math.sqrt
\* are increasing, so the sign of a difference of logs or roots is that of the arguments'
se_ln_h_sign(qt, n) ==
    IF RGt(qt, R(n - 1))
    THEN [exc |-> "none",
          sign |-> Sign(RSub(qt, R(n - 1))[1]) * Sign(RSub(RMul(R(2), qt), R(2 * n - 3))[1])]
    ELSE IF n = 2 THEN [exc |-> "ZeroDivisionError", sign |-> 0]
    ELSE LET radicand == RMul(Norm(1, 2 * (n - 2)),
                              RSub(One, Norm(1, 3 * (n - 2) * (n - 2))))
         IN IF RLt(radicand, Zero) THEN [exc |-> "ValueError", sign |-> 0]
            ELSE [exc |-> "none", sign |-> Sign(radicand[1])]

\* the three values of calc_i2 from the squared H and the squares of lower_h and upper_h
i2_triple(h2, lower_h2, upper_h2) ==
    [exc |-> "none", i2 |-> i2_of_h2(h2), lower_i2 |-> i2_of_h2(lower_h2),
     upper_i2 |-> i2_of_h2(upper_h2)]

\* calc_i2.  is_numpy: qt is a numpy.float64 (what the analyzers pass), whose division by
\* zero gives an infinity and no ZeroDivisionError.  spread stands for exp(z*|se_ln_h|),
\* which is not computed: it is at least 1, and 1 if se_ln_h is 0 (z > 0 for alpha < 1)
calc_i2(qt, n, is_numpy, spread) ==
    LET se == se_ln_h_sign(qt, n)
        h2 == RDiv(qt, R(n - 1))
        s2 == IF se.sign = 0 THEN One ELSE RSquare(spread)
    IN IF qt = Zero /\ ~is_numpy
       THEN [exc |-> "none", i2 |-> Zero, lower_i2 |-> Zero, upper_i2 |-> Zero]
       ELSE IF ~RGt(h2, Zero) THEN [exc |-> "ValueError", i2 |-> NaN, lower_i2 |-> NaN, upper_i2 |-> NaN]
       ELSE IF se.exc = "ZeroDivisionError"
       THEN [exc |-> "none", i2 |-> Zero, lower_i2 |-> Zero, upper_i2 |-> Zero]
       ELSE IF se.exc # "none" THEN [exc |-> se.exc, i2 |-> NaN, lower_i2 |-> NaN, upper_i2 |-> NaN]
       ELSE IF se.sign >= 0 THEN i2_triple(h2, RDiv(h2, s2), RMul(h2, s2))
       ELSE i2_triple(h2, RMul(h2, s2), RDiv(h2, s2))

-----------------------------------------------------------------------------
(* bootstrap_means: the indices read from the sorted list of means *)

\* scipy.stats.norm.ppf at the probabilities that occur, in thousandths
NormPpfTable ==
    {<<<<1, 40>>, -1960>>, <<<<1, 10>>, -1282>>, <<<<1, 7>>, -1068>>, <<<<1, 6>>, -967>>,
     <<<<1, 5>>, -842>>, <<<<1, 4>>, -674>>, <<<<2, 7>>, -566>>, <<<<1, 3>>, -431>>,
     <<<<2, 5>>, -253>>, <<<<3, 7>>, -180>>, <<<<9, 20>>, -126>>, <<<<1, 2>>, 0>>,
     <<<<4, 7>>, 180>>, <<<<3, 5>>, 253>>, <<<<2, 3>>, 431>>, <<<<5, 7>>, 566>>,
     <<<<3, 4>>, 674>>, <<<<4, 5>>, 842>>, <<<<5, 6>>, 967>>, <<<<6, 7>>, 1068>>}

\* scipy.stats.norm.cdf at the arguments that occur (in thousandths), in millionths
NormCdfTable ==
    {<<-4096, 21>>, <<-3894, 49>>, <<-3644, 134>>, <<-3418, 315>>, <<-3308, 470>>, <<-3216, 650>>,
     <<-3092, 994>>, <<-2966, 1509>>, <<-2822, 2386>>, <<-2630, 4269>>, <<-2466, 6832>>, <<-2414, 7889>>,
     <<-2320, 10170>>, <<-2262, 11849>>, <<-2144, 16016>>, <<-2060, 19699>>, <<-2010, 22216>>, <<-1960, 24998>>,
     <<-1810, 35148>>, <<-1808, 35303>>, <<-1788, 36888>>, <<-1642, 50295>>, <<-1600, 54799>>, <<-1558, 59617>>,
     <<-1474, 70241>>, <<-1454, 72973>>, <<-1282, 99921>>, <<-1258, 104196>>, <<-1222, 110854>>, <<-1098, 136102>>,
     <<-1006, 157208>>, <<-988, 161576>>, <<-922, 178264>>, <<-854, 196552>>, <<-828, 203835>>, <<-776, 218874>>,
     <<-736, 230865>>, <<-652, 257201>>, <<-632, 263693>>, <<-612, 270269>>, <<-486, 313484>>, <<-420, 337243>>,
     <<-402, 343842>>, <<-380, 351973>>, <<-276, 391274>>, <<-234, 407492>>, <<-176, 430147>>, <<-150, 440382>>,
     <<-126, 449866>>, <<-66, 473689>>, <<-26, 489629>>, <<26, 510371>>, <<66, 526311>>, <<126, 550134>>,
     <<150, 559618>>, <<176, 569853>>, <<234, 592508>>, <<276, 608726>>, <<380, 648027>>, <<402, 656158>>,
     <<420, 662757>>, <<486, 686516>>, <<612, 729731>>, <<632, 736307>>, <<652, 742799>>, <<736, 769135>>,
     <<776, 781126>>, <<828, 796165>>, <<854, 803448>>, <<922, 821736>>, <<988, 838424>>, <<1006, 842792>>,
     <<1098, 863898>>, <<1222, 889146>>, <<1258, 895804>>, <<1282, 900079>>, <<1454, 927027>>, <<1474, 929759>>,
     <<1558, 940383>>, <<1600, 945201>>, <<1642, 949705>>, <<1788, 963112>>, <<1808, 964697>>, <<1810, 964852>>,
     <<1960, 975002>>, <<2010, 977784>>, <<2060, 980301>>, <<2144, 983984>>, <<2262, 988151>>, <<2320, 989830>>,
     <<2414, 992111>>, <<2466, 993168>>, <<2630, 995731>>, <<2822, 997614>>, <<2966, 998491>>, <<3092, 999006>>,
     <<3216, 999350>>, <<3308, 999530>>, <<3418, 999685>>, <<3644, 999866>>, <<3894, 999951>>, <<4096, 999979>>}

\* scipy.stats.norm.ppf
norm_ppf(p) ==
    IF p = Zero THEN NegInf
    ELSE IF p = One THEN PosInf
    ELSE Norm((CHOOSE t \in NormPpfTable : t[1] = p)[2], 1000)

\* scipy.stats.norm.cdf
norm_cdf(z) ==
    IF z = NegInf THEN Zero
    ELSE IF z = PosInf THEN One
    ELSE Norm((CHOOSE t \in NormCdfTable : t[1] = (z[1] * 1000) \div z[2])[2], 1000000)

\* Python's round() to an integer: halves go to the even neighbour
PyRound(x) ==
    LET fl == x[1] \div x[2]
        rem == RSub(x, R(fl))
    IN IF RLt(rem, <<1, 2>>) THEN fl
       ELSE IF RGt(rem, <<1, 2>>) THEN fl + 1
       ELSE IF fl % 2 = 0 THEN fl ELSE fl + 1

\* the two bias-corrected indices before they are clamped; f is the number of replicate
\* means below the observed mean
bias_indices(bootstrap_n, alpha, f) ==
    LET z_score == RNeg(norm_ppf(RDiv(alpha, R(2))))
        z0 == norm_ppf(Norm(f, bootstrap_n + 1))
    IN [lower |-> PyRound(RMul(R(bootstrap_n + 1), norm_cdf(RSub(RMul(R(2), z0), z_score)))),
        upper |-> PyRound(RMul(R(bootstrap_n + 1), norm_cdf(RAdd(RMul(R(2), z0), z_score))))]

\* the end of bootstrap_means: the four indices and what reading a list of len_means
\* means at them raises
bootstrap_read(bootstrap_n, alpha, len_means, b) ==
    LET idx == [lower_index |-> PyRound(RDiv(RMul(R(bootstrap_n + 1), alpha), R(2))),
                upper_index |-> PyRound(RSub(R(bootstrap_n),
                                             RDiv(RMul(R(bootstrap_n + 1), alpha), R(2)))),
                lower_bias_index |-> IF b.lower < 0 THEN 0 ELSE b.lower,
                upper_bias_index |-> IF b.upper > bootstrap_n THEN bootstrap_n ELSE b.upper]
    IN [idx |-> idx, len_means |-> len_means,
        exc |-> IF \E k \in DOMAIN idx : idx[k] >= len_means \/ idx[k] < -len_means
                THEN "IndexError" ELSE "none"]

\* bootstrap_means after its resampling loop, which appended bootstrap_n means to the
\* observed one and counted f of them below it
bootstrap_indices(bootstrap_n, alpha, f) ==
    bootstrap_read(bootstrap_n, alpha, bootstrap_n + 1, bias_indices(bootstrap_n, alpha, f))

-----------------------------------------------------------------------------
(* Nested meta-analysis *)

\* the parent argument of find_next_nested_level at the top level (None)
NoParent == [isNone |-> TRUE, name |-> "", index |-> -1, includes_rows |-> <<>>]

\* find_next_nested_level: index is the 0-based level, group_data[r][index + 1] the
\* label of row r at that level; includes_rows holds 1-based positions in group_data
RECURSIVE find_next_nested_level(_, _, _)
find_next_nested_level(index, group_data, parent) ==
    LET all == IdxSeq(Len(group_data))
        level_names ==
            IF parent.isNone
            THEN SortedLabels({group_data[r][index + 1] : r \in 1..Len(group_data)})
            ELSE SortedLabels({group_data[r][index + 1] :
                                 r \in {q \in 1..Len(group_data) : group_data[q][index] = parent.name}})
    IN List([k \in 1..Len(level_names) |->
          LET name == level_names[k]
              includes_rows ==
                  IF parent.isNone
                  THEN SelectSeq(all, LAMBDA r : group_data[r][index + 1] = name)
                  ELSE SelectSeq(all, LAMBDA r : /\ group_data[r][index] = parent.name
                                                 /\ group_data[r][index + 1] = name
                                                 /\ r \in Range(parent.includes_rows))
              new_group == [isNone |-> FALSE, name |-> name, index |-> index,
                            includes_rows |-> includes_rows]
          IN [name |-> name, index |-> index, includes_rows |-> includes_rows,
              mean |-> Zero, qw |-> Zero,
              children |-> IF index < Len(group_data[1]) - 1
                           THEN find_next_nested_level(index + 1, group_data, new_group)
                           ELSE <<>>]])

\* NestedGroup.structure_check: the Python value it returns
RECURSIVE structure_check(_, _)
structure_check(self, max_index) ==
    LET triple == PyList(<<PyString(self.name), PyInt(self.index), PyBool(TRUE)>>) IN
    IF Len(self.includes_rows) < 2
    THEN (IF self.index = 0 THEN PyList(<<triple>>) ELSE triple)
    ELSE IF self.index < max_index
    THEN LET checks == List([c \in 1..Len(self.children) |->
                           structure_check(self.children[c], max_index)])
         IN PyList(SelectSeq(checks, LAMBDA check : Len(check.items) > 0))
    ELSE PyList(<<>>)

\* one pass of the body of "for check in check_groups" in check_data_for_nested:
\* the exception raised by check[2], check[0] or level_names[check[1]], or the block added
nest_check_body(check, level_names) ==
    IF check.py # "list" THEN [exc |-> "TypeError", block |-> <<>>]
    ELSE IF Len(check.items) < 3 THEN [exc |-> "IndexError", block |-> <<>>]
    ELSE IF check.items[2].py \notin {"int", "bool"} THEN [exc |-> "TypeError", block |-> <<>>]
    ELSE IF check.items[2].i + 1 \notin 1..Len(level_names)
    THEN [exc |-> "IndexError", block |-> <<>>]
    ELSE [exc |-> "none",
          block |-> <<[kind |-> "nest_error",
                       arg |-> <<check.items[1], level_names[check.items[2].i + 1]>>]>>]

\* check_data_for_nested: whether the analysis goes on, the blocks added, the exception raised
check_data_for_nested(n, top_level, level_names) ==
    IF n < 2 THEN [ok |-> FALSE, exc |-> "none",
                   blocks |-> <<[kind |-> "fewer_than_two_studies", arg |-> <<>>]>>]
    ELSE IF Len(top_level) < 2
    THEN [ok |-> FALSE, exc |-> "none",
          blocks |-> <<[kind |-> "fewer_than_two_groups", arg |-> level_names[1]]>>]
    ELSE LET n_levels == Len(level_names)
             check_groups == Flatten([g \in 1..Len(top_level) |->
                                        structure_check(top_level[g], n_levels).items])
             done == List([c \in 1..Len(check_groups) |-> nest_check_body(check_groups[c], level_names)])
             raised == {c \in 1..Len(done) : done[c].exc # "none"}
         IN IF raised # {}
            THEN [ok |-> FALSE, exc |-> done[MinOfSet(raised)].exc, blocks |-> <<>>]
            ELSE [ok |-> Len(check_groups) = 0, exc |-> "none",
                  blocks |-> Flatten([c \in 1..Len(done) |-> done[c].block])]

\* NestedGroup.group_calculations: the group and its descendants with mean and qw set
RECURSIVE group_calculations(_, _, _)
group_calculations(self, e, w) ==
    LET group_mask == [r \in 1..Len(e) |-> r \in Range(self.includes_rows)]
        group_e == MaskSeq(e, group_mask)
        group_w == MaskSeq(w, group_mask)
        m == mean_effect_var_and_q(group_e, group_w)
    IN [self EXCEPT !.mean = m.mean_e, !.qw = m.qt,
                    !.children = List([c \in 1..Len(self.children) |->
                                         group_calculations(self.children[c], e, w)])]

\* the heterogeneity lines group_calculations puts out, the group itself first
RECURSIVE group_het_output(_)
group_het_output(self) ==
    <<[source |-> self.name, index |-> self.index, q |-> self.qw,
       df |-> Len(self.includes_rows) - 1]>>
    \o Flatten([c \in 1..Len(self.children) |-> group_het_output(self.children[c])])

\* NestedGroup.qm: <<q, n>>
RECURSIVE qm_good(_, _, _, _)
qm_good(self, index, parent_mean, w) ==
    IF index = self.index
    THEN <<RSum([k \in 1..Len(self.includes_rows) |->
                   RMul(w[self.includes_rows[k]], RSquare(RSub(self.mean, parent_mean)))]), 1>>
    ELSE LET sub == List([c \in 1..Len(self.children) |->
                             qm_good(self.children[c], index, self.mean, w)])
         IN <<RSum([c \in 1..Len(sub) |-> sub[c][1]]), SumSeq([c \in 1..Len(sub) |-> sub[c][2]])>>

\* a qm that measures every level against the mean it was first called with
RECURSIVE qm_global(_, _, _, _)
qm_global(self, index, parent_mean, w) ==
    IF index = self.index
    THEN <<RSum([k \in 1..Len(self.includes_rows) |->
                   RMul(w[self.includes_rows[k]], RSquare(RSub(self.mean, parent_mean)))]), 1>>
    ELSE LET sub == List([c \in 1..Len(self.children) |->
                             qm_global(self.children[c], index, parent_mean, w)])
         IN <<RSum([c \in 1..Len(sub) |-> sub[c][1]]), SumSeq([c \in 1..Len(sub) |-> sub[c][2]])>>

qm(self, index, parent_mean, w) == qm_good(self, index, parent_mean, w)

\* NestedGroup.qe: <<q, n>>
RECURSIVE qe(_, _)
qe(self, index) ==
    IF self.index = index THEN <<self.qw, 1>>
    ELSE LET sub == List([c \in 1..Len(self.children) |-> qe(self.children[c], index)])
         IN <<RSum([c \in 1..Len(sub) |-> sub[c][1]]), SumSeq([c \in 1..Len(sub) |-> sub[c][2]])>>


\* the distinct orders numpy's rng.permutation can put the values of s into
PermutationsOf(s) == {List([i \in 1..Len(s) |-> s[p[i]]]) : p \in Perms(Len(s))}

\* the row test of nested_meta_analysis: effect and variance valid, a label at every level
ValidNested(opt, r) ==
    /\ ValidEV(opt, r)
    /\ \A k \in 1..Len(opt.nested_vars) :
          ~IsNone(check_value(r, opt.nested_vars[k], VALUE_STRING))

\* the values an analyzer returns when it did not compute any
NoValues == [isNone |-> TRUE]

\* what an analyzer call leaves behind when an exception leaves it
Raised(analysis, exc) ==
    [analysis |-> analysis, exc |-> exc, blocks |-> <<>>, values |-> NoValues, n |-> 0]

\* what an analyzer call returns
Returned(analysis, blocks, values, n) ==
    [analysis |-> analysis, exc |-> "none", blocks |-> blocks, values |-> values, n |-> n]

\* nested_meta_analysis, the filtering loop: the arrays built from the rows kept
nested_input(opt) ==
    LET f == FilterRows(List([r \in 1..Len(data.rows) |-> ValidNested(opt, r)])) IN
    [n |-> Len(f.rows),
     blocks |-> output_filtered_bad(f.filtered, f.bad_data),
     e_data |-> e_of(opt, f.rows),
     w_data |-> w_of(opt, f.rows),
     group_data |-> List([i \in 1..Len(f.rows) |->
                       List([k \in 1..Len(opt.nested_vars) |->
                          check_value(f.rows[i], opt.nested_vars[k], VALUE_STRING).s])])]

\* nested_meta_analysis, the group tree: the structure check and, if it passes, the global
\* mean and the calculations of every group
nested_structure(opt, inp) ==
    LET top_level == find_next_nested_level(0, inp.group_data, NoParent)
        chk == check_data_for_nested(inp.n, top_level, opt.nested_vars)
    IN [chk |-> chk,
        g |-> mean_effect_var_and_q(inp.e_data, inp.w_data),
        calc |-> IF chk.ok
                 THEN List([t \in 1..Len(top_level) |->
                              group_calculations(top_level[t], inp.e_data, inp.w_data)])
                 ELSE <<>>]

\* the model Q of nesting level i (0-based) and the number of groups at that level
level_qm(calc, i, mean_e, w_data) ==
    LET sub == List([t \in 1..Len(calc) |-> qm(calc[t], i, mean_e, w_data)])
    IN <<RSum([t \in 1..Len(sub) |-> sub[t][1]]), SumSeq([t \in 1..Len(sub) |-> sub[t][2]])>>

\* the error Q taken from nesting level i (0-based) and the number of groups at that level
level_qe(calc, i) ==
    LET sub == List([t \in 1..Len(calc) |-> qe(calc[t], i)])
    IN <<RSum([t \in 1..Len(sub) |-> sub[t][1]]), SumSeq([t \in 1..Len(sub) |-> sub[t][2]])>>

\* the heterogeneity partition with every level's degrees of freedom taken against one
\* group above it
nested_values_prev_one(opt, inp, st) ==
    LET n_levels == Len(opt.nested_vars)
        qms == List([i \in 1..n_levels |-> level_qm(st.calc, i - 1, st.g.mean_e, inp.w_data)])
        qerr == level_qe(st.calc, n_levels - 1)
    IN [isNone |-> FALSE,
        global_values |-> [n |-> inp.n, mean_e |-> st.g.mean_e, qt |-> st.g.qt, df |-> inp.n - 1],
        group_het_values |-> Flatten([t \in 1..Len(st.calc) |-> group_het_output(st.calc[t])]),
        model_het_values |->
            List([i \in 1..n_levels |->
               [source |-> opt.nested_vars[i], q |-> qms[i][1],
                df |-> qms[i][2] - 1,
                cnt |-> 0, nreps |-> 0, p_random |-> NaN]]),
        error_het_values |-> [q |-> qerr[1], df |-> inp.n - qerr[2]]]

\* nested_meta_analysis, the heterogeneity partition
nested_values(opt, inp, st) ==
    LET n_levels == Len(opt.nested_vars)
        qms == List([i \in 1..n_levels |-> level_qm(st.calc, i - 1, st.g.mean_e, inp.w_data)])
        qerr == level_qe(st.calc, n_levels - 1)
    IN [isNone |-> FALSE,
        global_values |-> [n |-> inp.n, mean_e |-> st.g.mean_e, qt |-> st.g.qt, df |-> inp.n - 1],
        group_het_values |-> Flatten([t \in 1..Len(st.calc) |-> group_het_output(st.calc[t])]),
        model_het_values |->
            List([i \in 1..n_levels |->
               [source |-> opt.nested_vars[i], q |-> qms[i][1],
                df |-> qms[i][2] - (IF i = 1 THEN 1 ELSE qms[i - 1][2]),
                cnt |-> 0, nreps |-> 0, p_random |-> NaN]]),
        error_het_values |-> [q |-> qerr[1], df |-> inp.n - qerr[2]]]

\* nested_meta_analysis up to the randomization test, put together
nested_assemble(opt, inp, st) ==
    [exc |-> st.chk.exc, ok |-> st.chk.ok, n |-> inp.n,
     blocks |-> inp.blocks \o st.chk.blocks,
     e_data |-> inp.e_data, w_data |-> inp.w_data, group_data |-> inp.group_data,
     mean_e |-> st.g.mean_e,
     values |-> IF st.chk.ok THEN nested_values(opt, inp, st) ELSE NoValues]

nested_structured(opt, inp) == nested_assemble(opt, inp, nested_structure(opt, inp))

nested_prepare(opt) == nested_structured(opt, nested_input(opt))

\* the blocks nested_meta_analysis adds once it has computed
NestedResultBlocks(n) ==
    <<[kind |-> "studies_included", arg |-> n], [kind |-> "group_results", arg |-> <<>>],
      [kind |-> "global_results", arg |-> <<>>]>>

\* the model heterogeneity lines with the randomization p-values filled in
WithRandomP(model_het_values, cnt_list, nreps) ==
    [i \in 1..Len(model_het_values) |->
       [model_het_values[i] EXCEPT !.cnt = cnt_list[i], !.nreps = nreps,
                                   !.p_random = Norm(cnt_list[i], nreps + 1)]]

\* what nested_meta_analysis does with p, the outcome of nested_prepare
NestedOutcome(opt, p) ==
    IF p.exc # "none"
    THEN /\ out' = Raised("nested", p.exc)
         /\ pc' = "done"
         /\ loc' = loc
    ELSE IF ~p.ok
    THEN /\ out' = Returned("nested", p.blocks, NoValues, p.n)
         /\ pc' = "done"
         /\ loc' = loc
    ELSE IF opt.randomize_model > 0
    THEN /\ loc' = [rep |-> 0, cnt_list |-> [i \in 1..Len(opt.nested_vars) |-> 1], prep |-> p]
         /\ pc' = "nested_rand"
         /\ out' = out
    ELSE /\ out' = Returned("nested", p.blocks \o NestedResultBlocks(p.n), p.values, p.n)
         /\ pc' = "done"
         /\ loc' = loc

\* nested_meta_analysis is called: runs to its return, to the exception it raises, or to
\* the head of its randomization loop
NestedCall(opt) ==
    /\ pc = "idle"
    /\ opt.structure = "nested"
    /\ options' = opt
    /\ NestedOutcome(opt, nested_prepare(opt))
    /\ UNCHANGED data

\* the replicate Q of every nesting level for the permuted effect sizes
nested_replicate(p, rand_level, n_levels) ==
    List([i \in 1..n_levels |-> level_qm(rand_level, i - 1, p.mean_e, p.w_data)[1]])

\* the group tree of a replicate with its calculations
nested_rand_level(top, rand_e_data, w_data) ==
    List([t \in 1..Len(top) |-> group_calculations(top[t], rand_e_data, w_data)])

\* the counts after a replicate with the Q values tmp_qm
nested_count(cnt_list, tmp_qm, model_het_values) ==
    List([i \in 1..Len(cnt_list) |->
            IF RGe(tmp_qm[i], model_het_values[i].q) THEN cnt_list[i] + 1 ELSE cnt_list[i]])

\* one replicate of the randomization loop of nested_meta_analysis
NestedRandRep ==
    /\ pc = "nested_rand"
    /\ loc.rep < options.randomize_model
    /\ \E rand_e_data \in PermutationsOf(loc.prep.e_data) :
         loc' = [loc EXCEPT
                   !.rep = @ + 1,
                   !.cnt_list = nested_count(@,
                       nested_replicate(loc.prep,
                           nested_rand_level(find_next_nested_level(0, loc.prep.group_data, NoParent),
                                             rand_e_data, loc.prep.w_data),
                           Len(options.nested_vars)),
                       loc.prep.values.model_het_values)]
    /\ UNCHANGED <<data, options, pc, out>>

\* the randomization loop of nested_meta_analysis is over: p-values, output, return
NestedRandDone ==
    /\ pc = "nested_rand"
    /\ loc.rep = options.randomize_model
    /\ out' = Returned("nested", loc.prep.blocks \o NestedResultBlocks(loc.prep.n),
                       [loc.prep.values EXCEPT !.model_het_values =
                            WithRandomP(@, loc.cnt_list, options.randomize_model)], loc.prep.n)
    /\ pc' = "done"
    /\ loc' = [rep |-> 0]
    /\ UNCHANGED <<data, options>>

-----------------------------------------------------------------------------
(* Matrices of floats: a matrix is the sequence of its rows *)

\* a matrix with its entries evaluated once
Mat(m) == List([i \in 1..Len(m) |-> List(m[i])])

\* numpy.transpose of a matrix with ncols columns
Transpose(m, ncols) == Mat([j \in 1..ncols |-> [i \in 1..Len(m) |-> m[i][j]]])

\* numpy.matmul of a matrix a with a matrix b of ncols columns
MatMul(a, b, ncols) ==
    Mat([i \in 1..Len(a) |-> [j \in 1..ncols |->
           RSum([k \in 1..Len(b) |-> RMul(a[i][k], b[k][j])])]])

\* numpy.matmul of a matrix with a vector
MatVec(a, v) == List([i \in 1..Len(a) |-> RSum([k \in 1..Len(v) |-> RMul(a[i][k], v[k])])])

\* numpy.matmul of two vectors
Dot(u, v) == RSum(RMulSeq(u, v))

\* numpy.diag of a vector
Diag(w) == Mat([i \in 1..Len(w) |-> [j \in 1..Len(w) |-> IF i = j THEN w[i] ELSE Zero]])

\* numpy.trace
Trace(m) == RSum([i \in 1..Len(m) |-> m[i][i]])

\* the matrix m without row i and column j
Minor(m, i, j) ==
    Mat([a \in 1..(Len(m) - 1) |-> [b \in 1..(Len(m) - 1) |->
           m[IF a < i THEN a ELSE a + 1][IF b < j THEN b ELSE b + 1]]])

RECURSIVE Det(_)
Det(m) ==
    IF Len(m) = 0 THEN One
    ELSE IF Len(m) = 1 THEN m[1][1]
    ELSE RSum([j \in 1..Len(m) |->
                 RMul(IF j % 2 = 1 THEN m[1][j] ELSE RNeg(m[1][j]), Det(Minor(m, 1, j)))])

\* the inverse of a matrix whose determinant is det
Adjugate(m, det) ==
    Mat([i \in 1..Len(m) |-> [j \in 1..Len(m) |->
           RDiv(IF (i + j) % 2 = 0 THEN Det(Minor(m, j, i)) ELSE RNeg(Det(Minor(m, j, i))), det)]])

\* numpy.linalg.inv: LinAlgError("Singular matrix") for a singular matrix, and NaN entries
\* (no error) for a matrix that holds NaN
linalg_inv_det(m, det) ==
    IF det = Zero THEN [err |-> "Singular matrix", m |-> <<>>]
    ELSE [err |-> "none", m |-> Adjugate(m, det)]

linalg_inv(m) == linalg_inv_det(m, Det(m))

-----------------------------------------------------------------------------
(* Grouped meta-analysis *)

\* the row test of grouped_meta_analysis
ValidGrouped(opt, r) ==
    ValidEV(opt, r) /\ ~IsNone(check_value(r, opt.groups, VALUE_STRING))

\* check_data_for_group: whether the analysis goes on, and the blocks added
check_data_for_group(n, group_names, group_data, group_label) ==
    IF n < 2 THEN [ok |-> FALSE, blocks |-> <<[kind |-> "fewer_than_two_studies", arg |-> <<>>]>>]
    ELSE IF Len(group_names) < 2
    THEN [ok |-> FALSE, blocks |-> <<[kind |-> "fewer_than_two_groups", arg |-> group_label]>>]
    ELSE LET small == SelectSeq(group_names, LAMBDA g :
                         Cardinality({i \in 1..Len(group_data) : group_data[i] = g}) < 2)
         IN [ok |-> small = <<>>,
             blocks |-> IF small = <<>> THEN <<>>
                        ELSE <<[kind |-> "group_error", arg |-> <<small, group_label>>]>>]

\* grouped_meta_analysis, the filtering loop: the arrays built from the rows kept
grouped_input(opt) ==
    LET f == FilterRows(List([r \in 1..Len(data.rows) |-> ValidGrouped(opt, r)])) IN
    [n |-> Len(f.rows),
     blocks |-> output_filtered_bad(f.filtered, f.bad_data),
     e_data |-> e_of(opt, f.rows),
     w_data |-> w_of(opt, f.rows),
     v_data |-> v_of(opt, f.rows),
     group_data |-> List([i \in 1..Len(f.rows) |->
                            check_value(f.rows[i], opt.groups, VALUE_STRING).s])]

\* mean_effect_var_and_q of every group in turn, for the effects e and the weights w
group_stats(group_names, group_data, e, w) ==
    List([k \in 1..Len(group_names) |->
       mean_effect_var_and_q(
           MaskSeq(e, [i \in 1..Len(e) |-> group_data[i] = group_names[k]]),
           MaskSeq(w, [i \in 1..Len(e) |-> group_data[i] = group_names[k]]))])

\* the sum of the within-group Q values
sum_group_qw(gs) == RSum([k \in 1..Len(gs) |-> gs[k].qt])

\* pooled_var_group_structure; gs holds sum_w and sum_w2 of every group
pooled_var_group_structure(qe_, gs, n, g_cnt) ==
    PyMax(RDiv(RSub(qe_, R(n - g_cnt)),
               RSum([k \in 1..Len(gs) |-> RSub(gs[k].sum_w, RDiv(gs[k].sum_w2, gs[k].sum_w))])),
          Zero)

\* numpy.reciprocal(v_data + pooled_var)
ws_of(v_data, pooled_var) == List([i \in 1..Len(v_data) |-> RRecip(RAdd(v_data[i], pooled_var))])

\* grouped_meta_analysis once the weights are chosen: g are the global values and gs the
\* values of the groups, both under the weights ws_data
grouped_values(inp, group_names, pooled_var, ws_data, g, gs) ==
    [isNone |-> FALSE, n |-> inp.n, mean_e |-> g.mean_e, var_e |-> g.var_e,
     pooled_var |-> pooled_var, qt |-> g.qt, df |-> inp.n - 1,
     qe |-> sum_group_qw(gs), dfe |-> inp.n - Len(group_names),
     qm |-> RSub(g.qt, sum_group_qw(gs)), dfm |-> Len(group_names) - 1,
     group_het_values |-> List([k \in 1..Len(gs) |-> [source |-> group_names[k], q |-> gs[k].qt]]),
     group_mean_values |-> List([k \in 1..Len(gs) |-> [name |-> group_names[k], mean |-> gs[k].mean_e]]),
     cnt |-> 0, nreps |-> 0, p_random |-> NaN]

grouped_weighted(inp, group_names, pooled_var, ws_data) ==
    [ws_data |-> ws_data,
     values |-> grouped_values(inp, group_names, pooled_var, ws_data,
                               mean_effect_var_and_q(inp.e_data, ws_data),
                               group_stats(group_names, inp.group_data, inp.e_data, ws_data))]

grouped_pooled(opt, inp, group_names, pooled_var) ==
    grouped_weighted(inp, group_names, pooled_var,
                     IF opt.random_effects THEN ws_of(inp.v_data, pooled_var) ELSE inp.w_data)

grouped_calc(opt, inp, group_names, gs0) ==
    grouped_pooled(opt, inp, group_names,
                   pooled_var_group_structure(sum_group_qw(gs0), gs0, inp.n, Len(group_names)))

\* grouped_meta_analysis up to the randomization test
grouped_checked(opt, inp, group_names, chk) ==
    LET c == IF chk.ok
             THEN grouped_calc(opt, inp, group_names,
                               group_stats(group_names, inp.group_data, inp.e_data, inp.w_data))
             ELSE [ws_data |-> <<>>, values |-> NoValues]
    IN [exc |-> "none", ok |-> chk.ok, n |-> inp.n, blocks |-> inp.blocks \o chk.blocks,
        e_data |-> inp.e_data, ws_data |-> c.ws_data, group_data |-> inp.group_data,
        group_names |-> group_names, values |-> c.values]

grouped_named(opt, inp, group_names) ==
    grouped_checked(opt, inp, group_names,
                    check_data_for_group(inp.n, group_names, inp.group_data, opt.groups))

grouped_structured(opt, inp) == grouped_named(opt, inp, SortedLabels(Range(inp.group_data)))

grouped_prepare(opt) == grouped_structured(opt, grouped_input(opt))

-----------------------------------------------------------------------------
(* Simple meta-analysis *)

\* a pooled variance without the correction of the denominator
pooled_var_plain_weights(qt, sum_w, sum_w2, df) == PyMax(RDiv(RSub(qt, R(df)), sum_w), Zero)

pooled_var_no_structure(qt, sum_w, sum_w2, df) ==
    PyMax(RDiv(RSub(qt, R(df)), RSub(sum_w, RDiv(sum_w2, sum_w))), Zero)

\* simple_meta_analysis, the filtering loop
simple_input(opt) ==
    LET f == FilterRows(List([r \in 1..Len(data.rows) |-> ValidEV(opt, r)]))
    IN [n |-> Len(f.rows),
        blocks |-> output_filtered_bad(f.filtered, f.bad_data),
        e_data |-> e_of(opt, f.rows),
        w_data |-> w_of(opt, f.rows),
        v_data |-> v_of(opt, f.rows)]

\* the values simple_meta_analysis reports, g being the mean, its variance and Q under the
\* weights chosen
simple_values(inp, pooled_var, g) ==
    [isNone |-> FALSE, n |-> inp.n, mean_e |-> g.mean_e, var_e |-> g.var_e,
     pooled_var |-> pooled_var, qt |-> g.qt, df |-> inp.n - 1,
     cnt |-> 0, nreps |-> 0, p_random |-> NaN]

simple_pooled(opt, inp, g, pooled_var) ==
    IF opt.random_effects
    THEN simple_values(inp, pooled_var,
                       mean_effect_var_and_q(inp.e_data, ws_of(inp.v_data, pooled_var)))
    ELSE simple_values(inp, pooled_var, g)

simple_fixed(opt, inp, g) ==
    simple_pooled(opt, inp, g, pooled_var_no_structure(g.qt, g.sum_w, g.sum_w2, inp.n - 1))

\* simple_meta_analysis: with fewer than two valid studies nothing is computed
simple_computed(opt, inp) ==
    IF inp.n > 1 THEN
        [exc |-> "none", ok |-> TRUE, n |-> inp.n, blocks |-> inp.blocks,
         values |-> simple_fixed(opt, inp, mean_effect_var_and_q(inp.e_data, inp.w_data))]
    ELSE [exc |-> "none", ok |-> FALSE, n |-> inp.n,
          blocks |-> inp.blocks \o <<[kind |-> "fewer_than_two_studies", arg |-> <<>>]>>,
          values |-> NoValues]

simple_prepare(opt) == simple_computed(opt, simple_input(opt))

-----------------------------------------------------------------------------
(* Regression meta-analysis *)

\* the row test of regression_meta_analysis
ValidRegression(opt, r) ==
    ValidEV(opt, r) /\ ~IsNone(check_value(r, opt.independent_variable, VALUE_NUMBER))

\* the sums of calculate_regression_ma_values
regression_sums(e_data, w_data, x_data) ==
    [sum_wxe |-> RSum([i \in 1..Len(e_data) |-> RMul(RMul(w_data[i], x_data[i]), e_data[i])]),
     sum_wx |-> RSum(RMulSeq(w_data, x_data)),
     sum_wx2 |-> RSum([i \in 1..Len(e_data) |-> RMul(w_data[i], RSquare(x_data[i]))])]

\* slope and intercept with their variances, from the sums s
regression_coefficients(s, sum_w, sum_we) ==
    LET sxx == RSub(s.sum_wx2, RDiv(RSquare(s.sum_wx), sum_w))
        b1_slope == RDiv(RSub(s.sum_wxe, RDiv(RMul(s.sum_wx, sum_we), sum_w)), sxx)
    IN [b1_slope |-> b1_slope,
        b0_intercept |-> RDiv(RSub(sum_we, RMul(b1_slope, s.sum_wx)), sum_w),
        var_b1 |-> RDiv(One, sxx),
        var_b0 |-> RDiv(One, RSub(sum_w, RDiv(RSquare(s.sum_wx), s.sum_wx2)))]

regression_q(s, b, qt) ==
    [qm |-> RDiv(RSquare(b.b1_slope), b.var_b1),
     qe |-> RSub(qt, RDiv(RSquare(b.b1_slope), b.var_b1)),
     b1_slope |-> b.b1_slope, b0_intercept |-> b.b0_intercept,
     var_b1 |-> b.var_b1, var_b0 |-> b.var_b0, sum_wx |-> s.sum_wx, sum_wx2 |-> s.sum_wx2]

regression_from_sums(s, sum_w, sum_we, qt) ==
    regression_q(s, regression_coefficients(s, sum_w, sum_we), qt)

\* calculate_regression_ma_values
calculate_regression_ma_values(e_data, w_data, x_data, sum_w, sum_we, qt) ==
    regression_from_sums(regression_sums(e_data, w_data, x_data), sum_w, sum_we, qt)

\* pooled_var_regression_structure
pooled_var_regression_structure(qe_, n, sum_w, sum_wx, sum_wx2, x_data, w_data) ==
    LET den == RSub(RMul(sum_w, sum_wx2), RSquare(sum_wx))
        d_sum == RSum([j \in 1..n |->
                   RMul(RSquare(w_data[j]),
                        RDiv(RAdd(RSub(sum_wx2, RMul(RMul(R(2), x_data[j]), sum_wx)),
                                  RMul(RSquare(x_data[j]), sum_w)),
                             den))])
    IN PyMax(RDiv(RSub(qe_, R(n - 2)), RSub(sum_w, d_sum)), Zero)

\* regression_meta_analysis, the filtering loop: the arrays built from the rows kept
regression_input(opt) ==
    LET f == FilterRows(List([r \in 1..Len(data.rows) |-> ValidRegression(opt, r)])) IN
    [n |-> Len(f.rows),
     blocks |-> output_filtered_bad(f.filtered, f.bad_data),
     e_data |-> e_of(opt, f.rows),
     w_data |-> w_of(opt, f.rows),
     v_data |-> v_of(opt, f.rows),
     x_data |-> List([i \in 1..Len(f.rows) |->
                        R(check_value(f.rows[i], opt.independent_variable, VALUE_NUMBER).n)])]

\* the values regression_meta_analysis reports: g and reg are the global values and the
\* regression under the weights ws_data
regression_values(inp, pooled_var, ws_data, g, reg) ==
    [ws_data |-> ws_data, sum_ws |-> g.sum_w, sum_wse |-> g.sum_ew,
     values |-> [isNone |-> FALSE, n |-> inp.n, mean_e |-> g.mean_e, var_e |-> g.var_e,
                 pooled_var |-> pooled_var, qt |-> g.qt, df |-> inp.n - 1,
                 qm |-> reg.qm, dfm |-> 1, qe |-> reg.qe, dfe |-> inp.n - 2,
                 b1_slope |-> reg.b1_slope, b0_intercept |-> reg.b0_intercept,
                 var_b1 |-> reg.var_b1, var_b0 |-> reg.var_b0,
                 cnt |-> 0, nreps |-> 0, p_random |-> NaN]]

regression_weighted(inp, pooled_var, ws_data, g) ==
    regression_values(inp, pooled_var, ws_data, g,
        calculate_regression_ma_values(inp.e_data, ws_data, inp.x_data, g.sum_w, g.sum_ew, g.qt))

regression_random(inp, pooled_var, ws_data) ==
    regression_weighted(inp, pooled_var, ws_data, mean_effect_var_and_q(inp.e_data, ws_data))

regression_fixed(opt, inp, g, reg) ==
    LET pooled_var == pooled_var_regression_structure(reg.qe, inp.n, g.sum_w, reg.sum_wx,
                                                      reg.sum_wx2, inp.x_data, inp.w_data)
    IN IF opt.random_effects
       THEN regression_random(inp, pooled_var, ws_of(inp.v_data, pooled_var))
       ELSE regression_values(inp, pooled_var, inp.w_data, g, reg)

regression_global(opt, inp, g) ==
    regression_fixed(opt, inp, g,
        calculate_regression_ma_values(inp.e_data, inp.w_data, inp.x_data, g.sum_w, g.sum_ew, g.qt))

\* regression_meta_analysis up to the randomization test
regression_structured(opt, inp) ==
    LET ok == inp.n > 1
        c == IF ok THEN regression_global(opt, inp, mean_effect_var_and_q(inp.e_data, inp.w_data))
             ELSE [ws_data |-> <<>>, sum_ws |-> Zero, sum_wse |-> Zero, values |-> NoValues]
    IN [exc |-> "none", ok |-> ok, n |-> inp.n,
        blocks |-> inp.blocks \o (IF ok THEN <<>>
                                  ELSE <<[kind |-> "fewer_than_two_studies", arg |-> <<>>]>>),
        e_data |-> inp.e_data, x_data |-> inp.x_data, ws_data |-> c.ws_data,
        sum_ws |-> c.sum_ws, sum_wse |-> c.sum_wse, values |-> c.values]

regression_prepare(opt) == regression_structured(opt, regression_input(opt))

-----------------------------------------------------------------------------
(* Complex (GLM) meta-analysis *)

\* the row test of complex_meta_analysis
ValidGlm(opt, r) ==
    /\ ValidEV(opt, r)
    /\ \A k \in 1..Len(opt.continuous_vars) :
          ~IsNone(check_value(r, opt.continuous_vars[k], VALUE_NUMBER))
    /\ \A k \in 1..Len(opt.categorical_vars) :
          ~IsNone(check_value(r, opt.categorical_vars[k], VALUE_STRING))

\* the first violation check_data_for_glm finds in categorical column col, if any
glm_column_check(tmp_dat, label) ==
    LET group_names == SortedLabels(Range(tmp_dat))
        small == SelectSeq(group_names, LAMBDA g :
                    Cardinality({i \in 1..Len(tmp_dat) : tmp_dat[i] = g}) < 2)
    IN IF Len(group_names) < 2 THEN <<[kind |-> "fewer_than_two_groups", arg |-> label]>>
       ELSE IF small # <<>> THEN <<[kind |-> "group_error", arg |-> <<<<small[1]>>, label>>]>>
       ELSE <<>>

\* check_data_for_glm: stops at the first violation
check_data_for_glm(n, cat_data, cat_labels) ==
    IF n < 2 THEN [ok |-> FALSE, blocks |-> <<[kind |-> "fewer_than_two_studies", arg |-> <<>>]>>]
    ELSE LET found == Flatten([col \in 1..Len(cat_labels) |->
                         glm_column_check([i \in 1..Len(cat_data) |-> cat_data[i][col]],
                                          cat_labels[col])])
         IN [ok |-> found = <<>>, blocks |-> IF found = <<>> THEN <<>> ELSE <<found[1]>>]

\* the contrast columns of one categorical column: 1 for the group, -1 for the first group
contrast_row(value, groups) ==
    [k \in 1..(Len(groups) - 1) |->
       IF groups[k + 1] = value THEN One ELSE IF groups[1] = value THEN R(-1) ELSE Zero]

\* complex_meta_analysis, the filtering loop and the design matrix
glm_input(opt) ==
    LET f == FilterRows(List([r \in 1..Len(data.rows) |-> ValidGlm(opt, r)]))
        tmp_x_data == List([i \in 1..Len(f.rows) |->
                        List([k \in 1..Len(opt.categorical_vars) |->
                           check_value(f.rows[i], opt.categorical_vars[k], VALUE_STRING).s])])
        groups == List([k \in 1..Len(opt.categorical_vars) |->
                     SortedLabels({tmp_x_data[i][k] : i \in 1..Len(tmp_x_data)})])
    IN [n |-> Len(f.rows),
        blocks |-> output_filtered_bad(f.filtered, f.bad_data),
        e_data |-> e_of(opt, f.rows),
        w_data |-> w_of(opt, f.rows),
        v_data |-> v_of(opt, f.rows),
        tmp_x_data |-> tmp_x_data,
        has_model |-> Len(opt.continuous_vars) + Len(opt.categorical_vars) > 0,
        x_data |-> Mat([i \in 1..Len(f.rows) |->
                     <<One>>
                     \o [k \in 1..Len(opt.continuous_vars) |->
                           R(check_value(f.rows[i], opt.continuous_vars[k], VALUE_NUMBER).n)]
                     \o Flatten([k \in 1..Len(opt.categorical_vars) |->
                                   contrast_row(tmp_x_data[i][k], groups[k])])])]

\* calculate_glm after the first inversion: xtw is xt w and inv the inverse of xt w x
glm_solved(e, x, w, inv, beta) ==
    LET red_beta == Tail(beta)
        red_inv == linalg_inv(Minor(inv.m, 1, 1))
        error_vec == List([i \in 1..Len(e) |-> RSub(e[i], Dot(x[i], beta))])
    IN IF red_inv.err # "none" THEN [err |-> red_inv.err]
       ELSE [err |-> "none", qm |-> Dot(red_beta, MatVec(red_inv.m, red_beta)),
             qe |-> Dot(error_vec, MatVec(w, error_vec)), beta |-> beta, xtwxinv |-> inv.m]

glm_inverted(e, x, w, xtw, inv) ==
    IF inv.err # "none" THEN [err |-> inv.err]
    ELSE glm_solved(e, x, w, inv, MatVec(inv.m, MatVec(xtw, e)))

glm_xtw(e, x, w, xtw) == glm_inverted(e, x, w, xtw, linalg_inv(MatMul(xtw, x, Len(x[1]))))

\* calculate_glm: the values it returns, or the LinAlgError it raises
calculate_glm(e, x, w) == glm_xtw(e, x, w, MatMul(Transpose(x, Len(x[1])), w, Len(w)))

\* pooled_var_glm, given the inverse of xt w x
pooled_var_glm_inv(qe_, n, w, x, xtwxinv) ==
    LET np == Len(x[1]) - 1
        wx_inv == MatMul(MatMul(w, x, np + 1), xtwxinv, np + 1)
        xtw == MatMul(Transpose(x, np + 1), w, n)
    IN PyMax(RDiv(RSub(qe_, R(n - np - 1)),
                  RSub(Trace(w), RSum([i \in 1..n |-> Dot(wx_inv[i], [k \in 1..(np + 1) |-> xtw[k][i]])]))),
             Zero)

\* the values complex_meta_analysis reports, from the result c of calculate_glm under the
\* weights ws_data
glm_values(inp, pooled_var, ws_data, c, g) ==
    [err |-> "none", ws_data |-> ws_data,
     values |-> [isNone |-> FALSE, n |-> inp.n, mean_e |-> g.mean_e, var_e |-> g.var_e,
                 pooled_var |-> pooled_var, qt |-> RAdd(c.qm, c.qe), df |-> inp.n - 1,
                 qm |-> c.qm, dfm |-> Len(inp.x_data[1]) - 1,
                 qe |-> c.qe, dfe |-> inp.n - Len(inp.x_data[1]),
                 has_model |-> inp.has_model, beta |-> c.beta, sigma_b |-> c.xtwxinv,
                 cnt |-> 0, nreps |-> 0, p_random |-> NaN]]

glm_weighted(inp, pooled_var, ws_data, c) ==
    IF c.err # "none" THEN [err |-> c.err, ws_data |-> <<>>, values |-> NoValues]
    ELSE glm_values(inp, pooled_var, ws_data, c, mean_effect_var_and_q(inp.e_data, ws_data))

glm_random(inp, pooled_var, ws_data) ==
    glm_weighted(inp, pooled_var, ws_data, calculate_glm(inp.e_data, inp.x_data, Diag(ws_data)))

glm_pooled(opt, inp, c, pooled_var) ==
    IF opt.random_effects THEN glm_random(inp, pooled_var, ws_of(inp.v_data, pooled_var))
    ELSE glm_weighted(inp, pooled_var, inp.w_data, c)

\* the body of the try statement of complex_meta_analysis
glm_try(opt, inp, c) ==
    IF c.err # "none" THEN [err |-> c.err, ws_data |-> <<>>, values |-> NoValues]
    ELSE glm_pooled(opt, inp, c,
                    pooled_var_glm_inv(c.qe, inp.n, Diag(inp.w_data), inp.x_data, c.xtwxinv))

\* complex_meta_analysis up to the randomization test; a LinAlgError is caught and reported
glm_checked(opt, inp, chk) ==
    LET t == IF chk.ok THEN glm_try(opt, inp, calculate_glm(inp.e_data, inp.x_data, Diag(inp.w_data)))
             ELSE [err |-> "none", ws_data |-> <<>>, values |-> NoValues]
    IN [exc |-> "none", ok |-> chk.ok /\ t.err = "none", n |-> inp.n,
        blocks |-> inp.blocks \o chk.blocks
                   \o (IF chk.ok THEN <<[kind |-> "studies_included", arg |-> inp.n]>> ELSE <<>>)
                   \o (IF t.err = "none" THEN <<>>
                       ELSE <<[kind |-> "analysis_error",
                               arg |-> IF t.err = "Singular matrix" THEN "AE-singular"
                                       ELSE "AE-unknown"]>>),
        e_data |-> inp.e_data, x_data |-> inp.x_data, ws_data |-> t.ws_data,
        values |-> t.values]

glm_structured(opt, inp) ==
    glm_checked(opt, inp, check_data_for_glm(inp.n, inp.tmp_x_data, opt.categorical_vars))

glm_prepare(opt) == glm_structured(opt, glm_input(opt))

-----------------------------------------------------------------------------
(* The analyzers with a model: calls and randomization loops *)

\* the blocks an analyzer adds once it has computed
ResultBlocks(analysis, n) ==
    <<[kind |-> "studies_included", arg |-> n], [kind |-> "results", arg |-> analysis]>>

\* what an analyzer with a single randomization count does with p, the outcome of its
\* computation up to the randomization test
AnalyzerOutcome(analysis, opt, p, loop) ==
    IF p.exc # "none"
    THEN /\ out' = Raised(analysis, p.exc)
         /\ pc' = "done"
         /\ loc' = loc
    ELSE IF ~p.ok
    THEN /\ out' = Returned(analysis, p.blocks, NoValues, p.n)
         /\ pc' = "done"
         /\ loc' = loc
    ELSE IF opt.randomize_model > 0
    THEN /\ loc' = [rep |-> 0, cnt |-> 1, prep |-> p, rand_e_data |-> <<>>, rand_qm |-> NaN]
         /\ pc' = loop
         /\ out' = out
    ELSE /\ out' = Returned(analysis, p.blocks \o ResultBlocks(analysis, p.n), p.values, p.n)
         /\ pc' = "done"
         /\ loc' = loc

\* an end of the loop that empties the data source
RandomizationDoneClearing(analysis, loop) ==
    /\ pc = loop
    /\ loc.rep = options.randomize_model
    /\ out' = Returned(analysis, loc.prep.blocks \o ResultBlocks(analysis, loc.prep.n),
                       [loc.prep.values EXCEPT !.cnt = loc.cnt, !.nreps = options.randomize_model,
                                               !.p_random = Norm(loc.cnt, options.randomize_model + 1)],
                       loc.prep.n)
    /\ pc' = "done"
    /\ loc' = [rep |-> 0]
    /\ data' = [data EXCEPT !.rows = <<>>]
    /\ UNCHANGED options

\* the end of a randomization loop with a single count: p-value, output, return
RandomizationDone(analysis, loop) ==
    /\ pc = loop
    /\ loc.rep = options.randomize_model
    /\ out' = Returned(analysis, loc.prep.blocks \o ResultBlocks(analysis, loc.prep.n),
                       [loc.prep.values EXCEPT !.cnt = loc.cnt, !.nreps = options.randomize_model,
                                               !.p_random = Norm(loc.cnt, options.randomize_model + 1)],
                       loc.prep.n)
    /\ pc' = "done"
    /\ loc' = [rep |-> 0]
    /\ UNCHANGED <<data, options>>

\* a count that a replicate raises by 2
count_replicate_by_two(cnt, rand_qm, qm_) == IF RGe(rand_qm, qm_) THEN cnt + 2 ELSE cnt

\* the count after a replicate whose model Q is rand_qm
count_replicate(cnt, rand_qm, qm_) == IF RGe(rand_qm, qm_) THEN cnt + 1 ELSE cnt

\* grouped_meta_analysis is called
GroupedCall(opt) ==
    /\ pc = "idle"
    /\ opt.structure = "grouped"
    /\ options' = opt
    /\ AnalyzerOutcome("grouped", opt, grouped_prepare(opt), "grouped_rand")
    /\ UNCHANGED data

\* the model Q of a replicate of grouped_meta_analysis
grouped_replicate(p, rand_e_data) ==
    RSub(p.values.qt,
         sum_group_qw(group_stats(p.group_names, p.group_data, rand_e_data, p.ws_data)))

\* one replicate of the randomization loop of grouped_meta_analysis
GroupedRandRep ==
    /\ pc = "grouped_rand"
    /\ loc.rep < options.randomize_model
    /\ \E rand_e_data \in PermutationsOf(loc.prep.e_data) :
         LET rand_qm == grouped_replicate(loc.prep, rand_e_data)
         IN loc' = [loc EXCEPT !.rep = @ + 1,
                               !.cnt = count_replicate(@, rand_qm, loc.prep.values.qm),
                               !.rand_e_data = rand_e_data,
                               !.rand_qm = rand_qm]
    /\ UNCHANGED <<data, options, pc, out>>

GroupedRandDone == RandomizationDone("grouped", "grouped_rand")

\* regression_meta_analysis is called
RegressionCall(opt) ==
    /\ pc = "idle"
    /\ opt.structure = "regression"
    /\ options' = opt
    /\ AnalyzerOutcome("regression", opt, regression_prepare(opt), "regression_rand")
    /\ UNCHANGED data

\* the model Q of a replicate of regression_meta_analysis
regression_replicate(p, rand_e_data) ==
    calculate_regression_ma_values(rand_e_data, p.ws_data, p.x_data, p.sum_ws, p.sum_wse,
                                   p.values.qt).qm

\* one replicate of the randomization loop of regression_meta_analysis
RegressionRandRep ==
    /\ pc = "regression_rand"
    /\ loc.rep < options.randomize_model
    /\ \E rand_e_data \in PermutationsOf(loc.prep.e_data) :
         LET rand_qm == regression_replicate(loc.prep, rand_e_data)
         IN loc' = [loc EXCEPT !.rep = @ + 1,
                               !.cnt = count_replicate(@, rand_qm, loc.prep.values.qm),
                               !.rand_e_data = rand_e_data,
                               !.rand_qm = rand_qm]
    /\ UNCHANGED <<data, options, pc, out>>

RegressionRandDone == RandomizationDone("regression", "regression_rand")

\* complex_meta_analysis is called
GlmCall(opt) ==
    /\ pc = "idle"
    /\ opt.structure = "glm"
    /\ options' = opt
    /\ AnalyzerOutcome("glm", opt, glm_prepare(opt), "glm_rand")
    /\ UNCHANGED data

\* the model Q of a replicate of complex_meta_analysis
glm_replicate(p, rand_e_data) == calculate_glm(rand_e_data, p.x_data, Diag(p.ws_data)).qm

\* one replicate of the randomization loop of complex_meta_analysis
GlmRandRep ==
    /\ pc = "glm_rand"
    /\ loc.rep < options.randomize_model
    /\ \E rand_e_data \in PermutationsOf(loc.prep.e_data) :
         loc' = [loc EXCEPT !.rep = @ + 1,
                            !.cnt = count_replicate(@, glm_replicate(loc.prep, rand_e_data),
                                                    loc.prep.values.qm)]
    /\ UNCHANGED <<data, options, pc, out>>

GlmRandDone == RandomizationDone("glm", "glm_rand")

-----------------------------------------------------------------------------
(* Rank correlation analysis: MetaWinPubBiasFunctions.  A correlation is    *)
(* kept as [num, den2], standing for num / sqrt(den2).                      *)

\* whether a / sqrt(b) < c / sqrt(d), for positive b and d
SurdLt(a, b, c, d) ==
    IF RLt(a, Zero) /\ RGe(c, Zero) THEN TRUE
    ELSE IF RGe(a, Zero) /\ RLt(c, Zero) THEN FALSE
    ELSE IF RGe(a, Zero) THEN RLt(RMul(RSquare(a), d), RMul(RSquare(c), b))
    ELSE RGt(RMul(RSquare(a), d), RMul(RSquare(c), b))

\* scipy.stats.rankdata(x, "average") given the order of the values: less[i][j] says
\* that the i-th value is below the j-th
average_ranks(n, less) ==
    List([i \in 1..n |->
        Norm(2 * Cardinality({j \in 1..n : less[j][i]})
               + Cardinality({j \in 1..n : ~less[j][i] /\ ~less[i][j]}) + 1, 2)])

\* get_ranks of the standardized effect sizes (e - mean_e) / sqrt(v_star)
get_ranks_e_star(dev, v_star) ==
    average_ranks(Len(dev),
                  List([i \in 1..Len(dev) |-> List([j \in 1..Len(dev) |->
                      SurdLt(dev[i], v_star[i], dev[j], v_star[j])])]))

\* get_ranks of numbers
get_ranks(x) ==
    average_ranks(Len(x), List([i \in 1..Len(x) |-> List([j \in 1..Len(x) |-> RLt(x[i], x[j])])]))

\* correlation: the numerator is a numpy float, so a zero denominator gives nan
correlation(x, y) ==
    LET n == Len(x)
        x_mean == RDiv(RSum(x), R(n))
        y_mean == RDiv(RSum(y), R(n))
        dx == List([i \in 1..n |-> RSub(x[i], x_mean)])
        dy == List([i \in 1..n |-> RSub(y[i], y_mean)])
    IN [exc |-> "none", num |-> Dot(dx, dy), den2 |-> RMul(Dot(dx, dx), Dot(dy, dy))]

\* the correction term for ties: the sum of c * (c - 1) over the counts of equal ranks
tie_term(ranks) ==
    LET n == Len(ranks)
    IN SumSeq(List([i \in 1..n |->
           IF \E j \in 1..(i - 1) : ranks[j] = ranks[i] THEN 0
           ELSE LET c == Cardinality({j \in 1..n : ranks[j] = ranks[i]})
                IN IF c > 1 THEN c * (c - 1) ELSE 0]))

\* the concordance count of kendalls_tau, doubled: 2 for a pair in ascending order, 1 for
\* a tied pair
concordance2(second) ==
    SumSeq(List([i \in 1..Len(second) |->
        SumSeq(List([j \in 1..Len(second) |->
            IF j <= i THEN 0
            ELSE IF RGt(second[j], second[i]) THEN 2
            ELSE IF second[j] = second[i] THEN 1 ELSE 0]))]))

\* kendalls_tau once the table is sorted by its first column; the numerator and the
\* denominator are Python numbers, so a zero denominator is a ZeroDivisionError
tau_sorted(n, second, t1, t2) ==
    LET den2 == R((n * (n - 1) - t1) * (n * (n - 1) - t2))
    IN IF den2 = Zero THEN [exc |-> "ZeroDivisionError", num |-> NaN, den2 |-> den2]
       ELSE [exc |-> "none", num |-> R(2 * concordance2(second) - n * (n - 1)), den2 |-> den2]

\* whether kendalls_tau sorts by the covariate ranks: it does when the effect ranks have ties
tau_sorts_by_x(e_ranks) == Cardinality(Range(e_ranks)) < Len(e_ranks)

\* kendalls_tau; order is what argsort returned for the first column
kendalls_tau(e_ranks, x_ranks, order) ==
    tau_sorted(Len(e_ranks),
               IF tau_sorts_by_x(e_ranks) THEN List([i \in 1..Len(order) |-> e_ranks[order[i]]])
               ELSE List([i \in 1..Len(order) |-> x_ranks[order[i]]]),
               tie_term(e_ranks), tie_term(x_ranks))

\* the orders argsort may return in kendalls_tau
TauOrders(e_ranks, x_ranks) ==
    ArgSorts(IF tau_sorts_by_x(e_ranks) THEN x_ranks ELSE e_ranks)

\* the values kendalls_tau may return
kendalls_tau_values(e_ranks, x_ranks) ==
    {kendalls_tau(e_ranks, x_ranks, order) : order \in TauOrders(e_ranks, x_ranks)}

\* abs(a) >= abs(b) for two correlations; a comparison with nan is false
AbsGe(a, b) ==
    IF a.den2 = Zero \/ b.den2 = Zero THEN FALSE
    ELSE RGe(RMul(RSquare(a.num), b.den2), RMul(RSquare(b.num), a.den2))

\* the row test of rank_correlation_analysis without a sample size column
ValidRank(opt, r) == ValidEV(opt, r)

\* rank_correlation_analysis, the filtering loop
rank_input(opt) ==
    LET f == FilterRows(List([r \in 1..Len(data.rows) |-> ValidRank(opt, r)]))
    IN [n |-> Len(f.rows),
        blocks |-> output_filtered_bad(f.filtered, f.bad_data),
        e_data |-> e_of(opt, f.rows),
        w_data |-> w_of(opt, f.rows),
        v_data |-> v_of(opt, f.rows)]

\* the ranks of the standardized effect sizes and of their variances
rank_ranks(inp, mean_e, sum_w) ==
    LET v_star == List([i \in 1..inp.n |-> RSub(inp.v_data[i], RRecip(sum_w))])
    IN [e_ranks |-> get_ranks_e_star(List([i \in 1..inp.n |-> RSub(inp.e_data[i], mean_e)]), v_star),
        x_ranks |-> get_ranks(v_star)]

rank_mean(opt, inp, g) ==
    IF opt.random_effects
    THEN mean_effect_var_and_q(inp.e_data,
             ws_of(inp.v_data, pooled_var_no_structure(g.qt, g.sum_w, g.sum_w2, inp.n - 1))).mean_e
    ELSE g.mean_e

rank_fixed(opt, inp, g) == rank_ranks(inp, rank_mean(opt, inp, g), g.sum_w)

\* the correlations the analysis may find between the ranks
rank_statistics(opt, e_ranks, x_ranks) ==
    IF opt.cor_test = "tau" THEN kendalls_tau_values(e_ranks, x_ranks)
    ELSE {correlation(e_ranks, x_ranks)}

\* the correlations a replicate of the randomization loop may find
rank_replicate(opt, e_ranks, rand_e_ranks, x_ranks) ==
    IF opt.cor_test = "tau" THEN kendalls_tau_values(rand_e_ranks, x_ranks)
    ELSE {correlation(e_ranks, x_ranks)}

\* rank_correlation_analysis up to the randomization loop, r being the correlation found
rank_prepare(opt, inp, ranks, r) ==
    [exc |-> r.exc, ok |-> TRUE, n |-> inp.n, blocks |-> inp.blocks,
     e_ranks |-> ranks.e_ranks, x_ranks |-> ranks.x_ranks,
     values |-> [isNone |-> FALSE, r |-> r, cnt |-> 0, nreps |-> 0, p_random |-> NaN]]

\* rank_correlation_analysis is called
RankCall(opt) ==
    /\ pc = "idle"
    /\ opt.structure = "rankcor"
    /\ options' = opt
    /\ LET inp == rank_input(opt) IN
       IF inp.n > 1 THEN
           LET ranks == rank_fixed(opt, inp, mean_effect_var_and_q(inp.e_data, inp.w_data))
           IN \E r \in rank_statistics(opt, ranks.e_ranks, ranks.x_ranks) :
                IF r.exc # "none"
                THEN /\ out' = Raised("rankcor", r.exc)
                     /\ pc' = "done"
                     /\ loc' = loc
                ELSE /\ loc' = [rep |-> 0, cnt |-> 1, prep |-> rank_prepare(opt, inp, ranks, r),
                                rand_e_ranks |-> <<>>, rand_r |-> r]
                     /\ pc' = "rank_rand"
                     /\ out' = out
       ELSE /\ out' = Returned("rankcor",
                               inp.blocks \o <<[kind |-> "fewer_than_two_studies", arg |-> <<>>]>>,
                               NoValues, inp.n)
            /\ pc' = "done"
            /\ loc' = loc
    /\ UNCHANGED data

\* one replicate of the randomization loop of rank_correlation_analysis
RankRandRep ==
    /\ pc = "rank_rand"
    /\ loc.rep < options.randomize_model
    /\ \E rand_e_ranks \in PermutationsOf(loc.prep.e_ranks) :
         \E rand_r \in rank_replicate(options, loc.prep.e_ranks, rand_e_ranks, loc.prep.x_ranks) :
            loc' = [loc EXCEPT !.rep = @ + 1,
                               !.cnt = IF AbsGe(rand_r, loc.prep.values.r) THEN @ + 1 ELSE @,
                               !.rand_e_ranks = rand_e_ranks,
                               !.rand_r = rand_r]
    /\ UNCHANGED <<data, options, pc, out>>

\* the end of the loop: the probability and the output
RankRandDone ==
    /\ pc = "rank_rand"
    /\ loc.rep = options.randomize_model
    /\ out' = Returned("rankcor", loc.prep.blocks \o ResultBlocks("rankcor", loc.prep.n),
                       [loc.prep.values EXCEPT !.cnt = loc.cnt, !.nreps = options.randomize_model,
                                               !.p_random = Norm(loc.cnt, options.randomize_model + 1)],
                       loc.prep.n)
    /\ pc' = "done"
    /\ loc' = [rep |-> 0]
    /\ UNCHANGED <<data, options>>

-----------------------------------------------------------------------------
(* Options and data sources *)

\* the options of an analysis; 0 stands for None in the two resampling counts
DefaultOptions ==
    [structure |-> "none", effect_data |-> "e", effect_vars |-> "v",
     groups |-> "g1", nested_vars |-> <<>>, independent_variable |-> "x",
     continuous_vars |-> <<>>, categorical_vars |-> <<>>,
     random_effects |-> FALSE, randomize_model |-> 0, cor_test |-> "tau",
     tip_names |-> "tip", cumulative_order |-> "ord"]

EmptyCells == [c \in Cols |-> NoneCell]

\* MetaWinData() with the columns added and no rows
EmptyData == [rows |-> <<>>, group_filter |-> [c \in Cols |-> {}]]

\* MetaWinData.add_row followed by add_value for each cell given; labels are row numbers
add_row(d, cells) ==
    [d EXCEPT !.rows = Append(@, [label |-> Len(@) + 1, include_row |-> TRUE, cells |-> cells])]

\* lexicographic <= on equally long integer sequences
RECURSIVE LexLe(_, _)
LexLe(a, b) ==
    IF a = <<>> THEN TRUE
    ELSE IF Head(a) # Head(b) THEN Head(a) < Head(b)
    ELSE LexLe(Tail(a), Tail(b))

\* an integer for a cell, by which loaded rows are kept in order
CellKey(cell) ==
    IF cell.t = "none" THEN 0
    ELSE IF cell.t = "num" THEN cell.n
    ELSE LabelRank(cell.s)

RowKey(cells) == <<CellKey(cells["g1"]), CellKey(cells["g2"]), CellKey(cells["g3"]),
                   CellKey(cells["tip"]), CellKey(cells["ord"]), CellKey(cells["x"]),
                   CellKey(cells["e"]), CellKey(cells["v"]), CellKey(cells["ns"])>>

-----------------------------------------------------------------------------
(* Phylogenetic trees: MetaWinTree.  A Python string is the sequence of its *)
(* characters.  A tree is the collection of its Node objects, numbered in   *)
(* the order of their creation; 0 stands for None.                          *)

NoNode == 0

NoTree == [name |-> <<>>, branch_length |-> <<>>, ancestor |-> <<>>, descendants |-> <<>>]

\* Node(): a new node with the default name, branch length, ancestor and descendants
NewNode(t) ==
    [name |-> Append(t.name, <<>>),
     branch_length |-> Append(t.branch_length, One),
     ancestor |-> Append(t.ancestor, NoNode),
     descendants |-> Append(t.descendants, <<>>)]

add_child(t, self, new_child) ==
    [t EXCEPT !.descendants[self] = Append(@, new_child), !.ancestor[new_child] = self]

n_descendants(t, self) == Len(t.descendants[self])

RECURSIVE root(_, _)
root(t, self) == IF t.ancestor[self] = NoNode THEN self ELSE root(t, t.ancestor[self])

RECURSIVE is_descendant(_, _, _)
is_descendant(t, self, query) ==
    \E k \in 1..Len(t.descendants[self]) :
        LET d == t.descendants[self][k] IN d = query \/ is_descendant(t, d, query)

RECURSIVE n_tips(_, _)
n_tips(t, self) ==
    IF n_descendants(t, self) = 0 THEN 1
    ELSE SumSeq(List([k \in 1..Len(t.descendants[self]) |-> n_tips(t, t.descendants[self][k])]))

\* the loop of distance_to_ancestor; walking past the root is an AttributeError on None
RECURSIVE distance_loop(_, _, _, _)
distance_loop(t, current_node, query, distance) ==
    IF current_node = query THEN [exc |-> "none", value |-> distance]
    ELSE IF current_node = NoNode THEN [exc |-> "AttributeError", value |-> distance]
    ELSE distance_loop(t, t.ancestor[current_node], query,
                       RAdd(distance, t.branch_length[current_node]))

distance_to_ancestor(t, self, query) == distance_loop(t, self, query, Zero)

\* the loop of common_ancestor; NoNode when it walks past the root (an AttributeError)
RECURSIVE common_ancestor_loop(_, _, _)
common_ancestor_loop(t, common_anc, query) ==
    IF common_anc = NoNode THEN NoNode
    ELSE IF is_descendant(t, common_anc, query) THEN common_anc
    ELSE common_ancestor_loop(t, t.ancestor[common_anc], query)

common_ancestor(t, self, query) ==
    IF is_descendant(t, query, self) THEN query ELSE common_ancestor_loop(t, self, query)

\* the longest descent below a node without the node's own branch
RECURSIVE longest_below(_, _, _, _)

RECURSIVE max_node_tip_length(_, _)
max_node_tip_length(t, self) == RAdd(longest_below(t, self, 1, Zero), t.branch_length[self])

\* the loop of max_node_tip_length over the descendants from the k-th on
longest_below(t, self, k, long) ==
    IF k > Len(t.descendants[self]) THEN long
    ELSE longest_below(t, self, k + 1,
                       PyMax(long, max_node_tip_length(t, t.descendants[self][k])))

RECURSIVE FlattenNames(_)
FlattenNames(lists) == IF lists = <<>> THEN <<>> ELSE Head(lists) \o FlattenNames(Tail(lists))

RECURSIVE tip_names(_, _)
tip_names(t, self) ==
    IF n_descendants(t, self) = 0 THEN <<t.name[self]>>
    ELSE FlattenNames(List([k \in 1..Len(t.descendants[self]) |->
                               tip_names(t, t.descendants[self][k])]))

\* find_tip_by_name: the first node in preorder that carries the name, NoNode for None
RECURSIVE find_in_descendants(_, _, _, _)

RECURSIVE find_tip_by_name(_, _, _)
find_tip_by_name(t, self, query) ==
    IF t.name[self] = query THEN self ELSE find_in_descendants(t, self, query, 1)

find_in_descendants(t, self, query, k) ==
    IF k > Len(t.descendants[self]) THEN NoNode
    ELSE LET x == find_tip_by_name(t, t.descendants[self][k], query)
         IN IF x # NoNode THEN x ELSE find_in_descendants(t, self, query, k + 1)

NewickSymbols == {"(", ")", ",", ";"}

\* str.strip() on a string of the characters used here: blanks go from both ends
RECURSIVE strip(_)
strip(s) ==
    IF s = <<>> THEN s
    ELSE IF Head(s) = " " THEN strip(Tail(s))
    ELSE IF s[Len(s)] = " " THEN strip(SubSeq(s, 1, Len(s) - 1))
    ELSE s

Digits == <<"0", "1", "2", "3", "4", "5", "6", "7", "8", "9">>

IsDigit(c) == \E k \in 1..10 : Digits[k] = c

DigitValue(c) == (CHOOSE k \in 1..10 : Digits[k] = c) - 1

RECURSIVE decimal_value(_, _)
decimal_value(s, acc) ==
    IF s = <<>> THEN acc ELSE decimal_value(Tail(s), 10 * acc + DigitValue(Head(s)))

\* eval() of the text of a branch length: a decimal integer literal gives its value, the
\* empty text is a SyntaxError, a text with another character fails as well
eval(s) ==
    IF s = <<>> THEN [exc |-> "SyntaxError", value |-> NaN]
    ELSE IF \E k \in 1..Len(s) : ~IsDigit(s[k]) THEN [exc |-> "NameError", value |-> NaN]
    ELSE IF Len(s) > 1 /\ s[1] = "0" THEN [exc |-> "SyntaxError", value |-> NaN]
    ELSE [exc |-> "none", value |-> R(decimal_value(s, 0))]

\* the inner loop of read_newick_tree: the first position from j on that holds a symbol,
\* one past the end when there is none (the read there is an IndexError)
RECURSIVE label_end(_, _)
label_end(tree_str, j) ==
    IF j > Len(tree_str) THEN j
    ELSE IF tree_str[j] \in NewickSymbols THEN j
    ELSE label_end(tree_str, j + 1)

ColonPositions(s) == {k \in 1..Len(s) : s[k] = ":"}

\* the name and/or branch length sub_str is given to current_node
read_label(t, current_node, sub_str) ==
    IF ColonPositions(sub_str) = {} THEN
        [exc |-> "none", tree |-> [t EXCEPT !.name[current_node] = sub_str]]
    ELSE IF sub_str[1] = ":" THEN
        LET bl == eval(strip(SubSeq(sub_str, 2, Len(sub_str))))
        IN IF bl.exc # "none" THEN [exc |-> bl.exc, tree |-> t]
           ELSE [exc |-> "none", tree |-> [t EXCEPT !.branch_length[current_node] = bl.value]]
    ELSE IF Cardinality(ColonPositions(sub_str)) # 1 THEN [exc |-> "ValueError", tree |-> t]
    ELSE LET c == CHOOSE k \in ColonPositions(sub_str) : TRUE
             new_name == SubSeq(sub_str, 1, c - 1)
             new_bl == eval(strip(SubSeq(sub_str, c + 1, Len(sub_str))))
         IN IF new_bl.exc # "none" THEN
                [exc |-> new_bl.exc, tree |-> [t EXCEPT !.name[current_node] = strip(new_name)]]
            ELSE [exc |-> "none",
                  tree |-> [t EXCEPT !.name[current_node] = strip(new_name),
                                     !.branch_length[current_node] = new_bl.value]]

\* the while loop of read_newick_tree from position i on (1-based)
RECURSIVE newick_loop(_, _, _, _)
newick_loop(tree_str, i, t, current_node) ==
    IF i > Len(tree_str) THEN [exc |-> "IndexError", tree |-> t, root |-> NoNode]
    ELSE IF tree_str[i] = ";" THEN [exc |-> "none", tree |-> t, root |-> root(t, current_node)]
    ELSE IF tree_str[i] = "(" THEN
        LET t1 == NewNode(t)
            new_node == Len(t1.name)
        IN newick_loop(tree_str, i + 1, add_child(t1, current_node, new_node), new_node)
    ELSE IF tree_str[i] = "," THEN
        IF t.ancestor[current_node] = NoNode THEN
            [exc |-> "AttributeError", tree |-> t, root |-> NoNode]
        ELSE LET t1 == NewNode(t)
                 new_node == Len(t1.name)
             IN newick_loop(tree_str, i + 1,
                            add_child(t1, t.ancestor[current_node], new_node), new_node)
    ELSE IF tree_str[i] = ")" THEN
        newick_loop(tree_str, i + 1, t,
                    IF t.ancestor[current_node] # NoNode THEN t.ancestor[current_node]
                    ELSE current_node)
    ELSE
        LET j == label_end(tree_str, i)
        IN IF j > Len(tree_str) THEN [exc |-> "IndexError", tree |-> t, root |-> NoNode]
           ELSE LET r == read_label(t, current_node, SubSeq(tree_str, i, j - 1))
                IN IF r.exc # "none" THEN [exc |-> r.exc, tree |-> r.tree, root |-> NoNode]
                   ELSE newick_loop(tree_str, j, r.tree, current_node)

read_newick_tree(tree_str) == newick_loop(tree_str, 1, NewNode(NoTree), 1)

\* phylogenetic_correlation, the loop that finds the most recent common ancestor of the
\* included taxa, from the k-th name on; NoNode when common_ancestor fails
RECURSIVE mrca_loop(_, _, _, _, _)
mrca_loop(t, root_node, names, k, mrca) ==
    IF k > Len(names) THEN mrca
    ELSE LET tip1 == find_tip_by_name(t, root_node, names[k])
             next == IF tip1 = NoNode THEN NoNode ELSE common_ancestor(t, tip1, mrca)
         IN IF next = NoNode THEN NoNode ELSE mrca_loop(t, root_node, names, k + 1, next)

\* one entry below the diagonal: [exc, value]; the distances are Python numbers, so a
\* zero max_depth is a ZeroDivisionError
correlation_entry(t, mrca, max_depth, tip1, tip2) ==
    LET anc == common_ancestor(t, tip1, tip2)
    IN IF anc = NoNode THEN [exc |-> "AttributeError", value |-> NaN]
       ELSE LET shared_dist == distance_to_ancestor(t, anc, mrca)
            IN IF shared_dist.exc # "none" THEN [exc |-> shared_dist.exc, value |-> NaN]
               ELSE IF max_depth = Zero THEN [exc |-> "ZeroDivisionError", value |-> NaN]
               ELSE [exc |-> "none", value |-> RDiv(shared_dist.value, max_depth)]

\* the pair the double loop of phylogenetic_correlation reaches first
FirstPair(S) ==
    CHOOSE ij \in S : \A kl \in S : ij[1] < kl[1] \/ (ij[1] = kl[1] /\ ij[2] <= kl[2])

phylogenetic_correlation(names, t, root_node) ==
    IF Len(names) = 0 THEN [exc |-> "IndexError", p |-> <<>>]
    ELSE
    LET n == Len(names)
        tips == List([i \in 1..n |-> find_tip_by_name(t, root_node, names[i])])
        mrca == mrca_loop(t, root_node, names, 2, tips[1])
    IN IF mrca = NoNode THEN [exc |-> "AttributeError", p |-> <<>>]
       ELSE
       LET max_depth == max_node_tip_length(t, mrca)
           low == List([i \in 1..n |-> List([j \in 1..n |->
                     IF j < i THEN correlation_entry(t, mrca, max_depth, tips[i], tips[j])
                     ELSE [exc |-> "none", value |-> One]])])
           failed == {ij \in (1..n) \X (1..n) : low[ij[1]][ij[2]].exc # "none"}
       IN IF failed # {} THEN
              [exc |-> low[FirstPair(failed)[1]][FirstPair(failed)[2]].exc, p |-> <<>>]
          ELSE [exc |-> "none",
                p |-> List([i \in 1..n |-> List([j \in 1..n |->
                        IF i = j THEN One
                        ELSE IF j < i THEN low[i][j].value ELSE low[j][i].value])])]

-----------------------------------------------------------------------------
(* Phylogenetic GLM meta-analysis *)

\* math.sqrt of a variance; the variances of the data are squares of whole numbers
math_sqrt(a) == R(CHOOSE k \in 0..a[1] : k * k = a[1])

\* the characters of a name in the tip column; the names of the data are single characters
name_chars(s) == <<s>>

\* the row test of phylogenetic_meta_analysis
ValidPhylo(opt, r, tree_tips) ==
    LET t_name == check_value(r, opt.tip_names, VALUE_STRING)
    IN /\ ValidGlm(opt, r)
       /\ ~IsNone(t_name)
       /\ \E i \in 1..Len(tree_tips) : tree_tips[i] = name_chars(t_name.s)

\* phylogenetic_meta_analysis, the filtering loop and the design matrix
phylo_input(opt, tree_tips) ==
    LET f == FilterRows(List([r \in 1..Len(data.rows) |-> ValidPhylo(opt, r, tree_tips)]))
        tmp_x_data == List([i \in 1..Len(f.rows) |->
                        List([k \in 1..Len(opt.categorical_vars) |->
                           check_value(f.rows[i], opt.categorical_vars[k], VALUE_STRING).s])])
        groups == List([k \in 1..Len(opt.categorical_vars) |->
                     SortedLabels({tmp_x_data[i][k] : i \in 1..Len(tmp_x_data)})])
    IN [n |-> Len(f.rows),
        blocks |-> output_filtered_bad(f.filtered, f.bad_data),
        e_data |-> e_of(opt, f.rows),
        v_data |-> v_of(opt, f.rows),
        tip_names |-> List([i \in 1..Len(f.rows) |->
                         name_chars(check_value(f.rows[i], opt.tip_names, VALUE_STRING).s)]),
        tmp_x_data |-> tmp_x_data,
        has_model |-> Len(opt.continuous_vars) + Len(opt.categorical_vars) > 0,
        x_data |-> Mat([i \in 1..Len(f.rows) |->
                     <<One>>
                     \o [k \in 1..Len(opt.continuous_vars) |->
                           R(check_value(f.rows[i], opt.continuous_vars[k], VALUE_NUMBER).n)]
                     \o Flatten([k \in 1..Len(opt.categorical_vars) |->
                                   contrast_row(tmp_x_data[i][k], groups[k])])])]

\* the variances on the diagonal and the phylogenetic covariances beside it
phylo_v_matrix(v_data, p_matrix) ==
    Mat([i \in 1..Len(v_data) |-> [j \in 1..Len(v_data) |->
           IF i = j THEN v_data[i]
           ELSE RMul(RMul(p_matrix[i][j], math_sqrt(v_data[i])), math_sqrt(v_data[j]))]])

\* the experimental-analysis warning every call adds
PhyloWarning == <<[kind |-> "warning", arg |-> "experimental"]>>

\* the output of the try statement once calculate_glm has returned c: the predictor loop
\* takes math.sqrt of the diagonal of sigma_b, and without predictors calc_i2 is called
phylo_output(inp, c, pooled_var) ==
    LET qt == RAdd(c.qm, c.qe)
        i2 == calc_i2(qt, inp.n, TRUE, One)
    IN IF \E b \in 1..Len(c.beta) : RLt(c.xtwxinv[b][b], Zero)
       THEN [exc |-> "ValueError", err |-> "none", blocks |-> <<>>]
       ELSE IF inp.has_model
       THEN [exc |-> "none", err |-> "none",
             blocks |-> <<[kind |-> "predictors", arg |-> c.beta],
                          [kind |-> "heterogeneity", arg |-> <<c.qm, c.qe, qt>>]>>]
       ELSE IF i2.exc # "none" THEN [exc |-> i2.exc, err |-> "none", blocks |-> <<>>]
       ELSE [exc |-> "none", err |-> "none",
             blocks |-> <<[kind |-> "predictors", arg |-> c.beta],
                          [kind |-> "global_results", arg |-> <<c.beta[1], c.xtwxinv[1][1], qt, pooled_var>>]>>]

\* the body of the try statement with fixed effects
phylo_try(inp, w_matrix, c) ==
    IF c.err # "none" THEN [exc |-> "none", err |-> c.err, blocks |-> <<>>]
    ELSE phylo_output(inp, c, pooled_var_glm_inv(c.qe, inp.n, w_matrix, inp.x_data, c.xtwxinv))

\* phylogenetic_meta_analysis from the data checks on: w is the result of the inversion of
\* v_matrix at line 2111, which no try statement encloses
phylo_checked(opt, inp, w, chk) ==
    IF w.err # "none" THEN [exc |-> "LinAlgError", n |-> inp.n, blocks |-> <<>>]
    ELSE LET t == IF chk.ok
                  THEN phylo_try(inp, w.m, calculate_glm(inp.e_data, inp.x_data, w.m))
                  ELSE [exc |-> "none", err |-> "none", blocks |-> <<>>]
         IN [exc |-> t.exc, n |-> inp.n,
             blocks |-> inp.blocks \o PhyloWarning \o chk.blocks
                        \o (IF chk.ok THEN <<[kind |-> "studies_included", arg |-> inp.n]>> ELSE <<>>)
                        \o t.blocks
                        \o (IF t.err = "none" THEN <<>>
                            ELSE <<[kind |-> "analysis_error",
                                    arg |-> IF t.err = "Singular matrix" THEN "AE-singular"
                                            ELSE "AE-unknown"]>>)]

\* phylogenetic_meta_analysis from the correlation matrix on
phylo_correlated(opt, inp, cor) ==
    IF cor.exc # "none" THEN [exc |-> cor.exc, n |-> inp.n, blocks |-> <<>>]
    ELSE phylo_checked(opt, inp, linalg_inv(phylo_v_matrix(inp.v_data, cor.p)),
                       check_data_for_glm(inp.n, inp.tmp_x_data, opt.categorical_vars))

phylo_filtered(opt, inp, t, root_node) ==
    phylo_correlated(opt, inp, phylogenetic_correlation(inp.tip_names, t, root_node))

\* phylogenetic_meta_analysis with fixed effects: the exception it raises or the blocks
\* it returns
phylogenetic_meta_analysis(opt, t, root_node) ==
    phylo_filtered(opt, phylo_input(opt, tip_names(t, root_node)), t, root_node)

-----------------------------------------------------------------------------
(* Trim and fill analysis *)

\* the body of the loop runs while the estimate changes and fewer than this many times
IterationCap == 1000

\* the orders argsort may return for values that may be nan: ascending, every nan last,
\* the order of equal values not fixed
NumpyArgSorts(a) ==
    {p \in Perms(Len(a)) :
        \A i \in 1..(Len(a) - 1) :
            \/ IsNaN(a[p[i + 1]])
            \/ (~IsNaN(a[p[i]]) /\ RLe(a[p[i]], a[p[i + 1]]))}

\* order.argsort(): the zero-based place of every index in the order
argsort_of_order(order) ==
    List([i \in 1..Len(order) |-> (CHOOSE k \in 1..Len(order) : order[k] = i) - 1])

\* a column of the table sorted by effect size, descending ([::-1]) while skew_right
trim_fill_sorted(col, order, skew_right) ==
    IF skew_right THEN List([i \in 1..Len(col) |-> col[order[Len(col) + 1 - i]]])
    ELSE List([i \in 1..Len(col) |-> col[order[i]]])

\* tmp_data[trim_n:, :]
trim_rows(col, trim_n) == SubSeq(col, trim_n + 1, Len(col))

\* trim_and_fill_analysis, the filtering loop
trim_fill_input(opt) ==
    LET f == FilterRows(List([r \in 1..Len(data.rows) |-> ValidEV(opt, r)]))
    IN [n |-> Len(f.rows),
        blocks |-> output_filtered_bad(f.filtered, f.bad_data),
        e_data |-> e_of(opt, f.rows),
        w_data |-> w_of(opt, f.rows),
        v_data |-> v_of(opt, f.rows)]

\* a row of the table of means
trim_fill_mean_row(name, n, g, median_e) ==
    [name |-> name, n |-> n, mean_e |-> g.mean_e, median_e |-> median_e, var_e |-> g.var_e]

\* the mean, its variance and the median of a data set, under the weights of the model;
\* order is what argsort returns for e; the median of the original data is taken again
\* under the weights of the random effects model, that of the filled data is not
trim_fill_mean(opt, name, e, w, v, order, median_again) ==
    LET g == mean_effect_var_and_q(e, w)
        pooled_var == pooled_var_no_structure(g.qt, g.sum_w, g.sum_w2, Len(e) - 1)
        ws == ws_of(v, pooled_var)
        m == median_effect(e, w, order)
        ms == IF opt.random_effects /\ median_again THEN median_effect(e, ws, order) ELSE m
    IN [exc |-> IF m.exc # "none" THEN m.exc ELSE ms.exc,
        pooled_var |-> pooled_var,
        row |-> trim_fill_mean_row(name, Len(e),
                                   IF opt.random_effects THEN mean_effect_var_and_q(e, ws) ELSE g,
                                   ms.value)]

\* the mean of the rows left after the trim
trimmed_mean(opt, e, w, v, tmp_df) ==
    LET g == mean_effect_var_and_q(e, w) IN
    IF opt.random_effects
    THEN mean_effect_var_and_q(
             e, ws_of(v, pooled_var_no_structure(g.qt, g.sum_w, g.sum_w2, tmp_df))).mean_e
    ELSE g.mean_e

\* (ranks+1)*numpy.sign(diff) where no difference is nan
signed_ranks(diff, rank_order) ==
    List([i \in 1..Len(diff) |-> (argsort_of_order(rank_order)[i] + 1) * Sign(diff[i][1])])

\* the sums of the ranks on the two sides, gamma and t_n; with a mean that is nan every
\* rank is nan, both sums are empty and gamma is nan
trim_fill_skew(n, tmp_mean_e, diff, rank_order) ==
    LET ranks == signed_ranks(diff, rank_order)
        t_pos == SumSeq(SelectSeq(ranks, LAMBDA r : r > 0))
        t_neg == SumSeq(List([i \in 1..Len(SelectSeq(ranks, LAMBDA r : r < 0)) |->
                                 Abs(SelectSeq(ranks, LAMBDA r : r < 0)[i])]))
    IN IF IsNaN(tmp_mean_e)
       THEN [right |-> FALSE, gamma_nan |-> TRUE, gamma |-> 0, t_n |-> 0,
             t_pos |-> 0, t_neg |-> 0]
       ELSE IF t_pos > t_neg
       THEN [right |-> TRUE, gamma_nan |-> FALSE,
             gamma |-> n - Abs(MinOfSet({ranks[i] : i \in 1..n})), t_n |-> t_pos,
             t_pos |-> t_pos, t_neg |-> t_neg]
       ELSE [right |-> FALSE, gamma_nan |-> FALSE,
             gamma |-> n - Abs(MaxOfSet({ranks[i] : i \in 1..n})), t_n |-> t_neg,
             t_pos |-> t_pos, t_neg |-> t_neg]

PyMaxInt(a, b) == IF b > a THEN b ELSE a

\* round(n - 1/2 - math.sqrt(2*n**2 - 4*t_n + 1/4)): with m = 8n^2 - 16t_n + 1, which is
\* odd, the value is (2n - 1 - sqrt(m))/2, an integer when m is a square and never half
\* of an odd number, so that it rounds to n - c for the least c with 4c^2 > m
q0_rounded(n, t_n) ==
    LET m == 8 * n * n - 16 * t_n + 1
    IN n - (CHOOSE c \in 0..(2 * n + 1) :
                4 * c * c > m /\ \A d \in 0..(c - 1) : 4 * d * d <= m)

\* the estimate of the number of missing studies with every estimator rounded down
k_estimate_floor(k_estimator, n, s) ==
    IF k_estimator = "R"
    THEN IF s.gamma_nan THEN [exc |-> "ValueError", new_trim |-> 0]
         ELSE [exc |-> "none", new_trim |-> PyMaxInt(0, s.gamma - 1)]
    ELSE IF k_estimator = "Q"
    THEN IF 8 * n * n - 16 * s.t_n + 1 < 0 THEN [exc |-> "ValueError", new_trim |-> 0]
         ELSE [exc |-> "none",
               new_trim |-> PyMaxInt(0, n - (CHOOSE c \in 1..(2 * n + 1) :
                   /\ (2 * c - 1) * (2 * c - 1) >= 8 * n * n - 16 * s.t_n + 1
                   /\ \A d \in 1..(c - 1) :
                          (2 * d - 1) * (2 * d - 1) < 8 * n * n - 16 * s.t_n + 1))]
    ELSE [exc |-> "none",
          new_trim |-> PyMaxInt(0, (4 * s.t_n - n * (n + 1)) \div (2 * n - 1))]

\* the estimate of the number of missing studies
k_estimate(k_estimator, n, s) ==
    IF k_estimator = "R"
    THEN IF s.gamma_nan THEN [exc |-> "ValueError", new_trim |-> 0]
         ELSE [exc |-> "none", new_trim |-> PyMaxInt(0, s.gamma - 1)]
    ELSE IF k_estimator = "Q"
    THEN IF 8 * n * n - 16 * s.t_n + 1 < 0 THEN [exc |-> "ValueError", new_trim |-> 0]
         ELSE [exc |-> "none", new_trim |-> PyMaxInt(0, q0_rounded(n, s.t_n))]
    ELSE [exc |-> "none",
          new_trim |-> PyMaxInt(0, PyRound(RDiv(R(4 * s.t_n - n * (n + 1)), R(2 * n - 1))))]

\* the differences of the sorted effect sizes from the mean of the trimmed rows
trim_fill_diff(opt, inp, order, skew_right, trim_n) ==
    LET e == trim_fill_sorted(inp.e_data, order, skew_right)
        tmp_mean_e == trimmed_mean(opt,
                                   trim_rows(e, trim_n),
                                   trim_rows(trim_fill_sorted(inp.w_data, order, skew_right), trim_n),
                                   trim_rows(trim_fill_sorted(inp.v_data, order, skew_right), trim_n),
                                   inp.n - trim_n - 1)
    IN [tmp_mean_e |-> tmp_mean_e,
        tmp_data |-> [e |-> e, w |-> trim_fill_sorted(inp.w_data, order, skew_right),
                      v |-> trim_fill_sorted(inp.v_data, order, skew_right)],
        diff |-> List([i \in 1..inp.n |-> RSub(e[i], tmp_mean_e)])]

\* one pass of the body of the loop; st holds trim_n, new_trim, iterations, tmp_mean_e and
\* skew_right, d is the differences and rank_order what argsort returns for abs_diff
trim_fill_pass(opt, inp, st, d, rank_order) ==
    LET s == trim_fill_skew(inp.n, d.tmp_mean_e, d.diff, rank_order)
        k == k_estimate(opt.k_estimator, inp.n, s)
    IN [exc |-> k.exc, skew |-> s,
        st |-> [trim_n |-> st.new_trim, new_trim |-> k.new_trim,
                iterations |-> st.iterations + 1, tmp_mean_e |-> d.tmp_mean_e,
                skew_right |-> st.skew_right /\ s.right]]

\* the filled effect sizes with the studies of the other end of the table mirrored
filled_effects_other_end(e, trim_n, tmp_mean_e) ==
    e \o List([i \in 1..trim_n |-> RSub(tmp_mean_e, RSub(e[Len(e) - i + 1], tmp_mean_e))])

\* the data set with the estimated missing studies: a column of the sorted table
\* followed by its first trim_n values, mirrored about the mean where they are effects
filled_effects(e, trim_n, tmp_mean_e) ==
    e \o List([i \in 1..trim_n |-> RSub(tmp_mean_e, RSub(e[i], tmp_mean_e))])

filled_column(col, trim_n) == col \o SubSeq(col, 1, trim_n)

\* the output after the loop; fill_order is what argsort returns for the filled effects
trim_fill_output(opt, inp, original, st, e, w, v, fill_order) ==
    LET t == trim_fill_mean(opt, "Trim and Fill Mean", e, w, v, fill_order, FALSE)
    IN [exc |-> t.exc,
        blocks |-> inp.blocks
                   \o <<[kind |-> "studies_included", arg |-> inp.n]>>
                   \o (IF opt.random_effects
                       THEN <<[kind |-> "pooled_var", arg |-> original.pooled_var]>> ELSE <<>>)
                   \o <<[kind |-> "missing_studies", arg |-> st.trim_n],
                        [kind |-> "mean_effects", arg |-> <<original.row, t.row>>]>>]

\* the loop has ended: trim_n != new_trim and iterations < 1000 is false
trim_fill_loop_ended(st) == ~(st.trim_n # st.new_trim /\ st.iterations < IterationCap)

(* Rosenberg's fail-safe number under random effects *)

\* scipy.stats.t.ppf(alpha/2, df)**2 for alpha = 0.05, to three significant digits
TPpfSquareTable == {<<1, <<161, 1>>>>, <<2, <<37, 2>>>>, <<3, <<101, 10>>>>, <<4, <<77, 10>>>>}

\* the square of the quantile of the t distribution; nan where df is not positive
t_ppf_square(df) ==
    IF df <= 0 THEN NaN ELSE (CHOOSE t \in TPpfSquareTable : t[1] = df)[2]

\* sum_erw and sum_rw under the weights 1/(variance + pooled)
random_weight_sums(effects, variances, pooled) ==
    [sum_erw |-> RSum(RMulSeq(effects, ws_of(variances, pooled))),
     sum_rw |-> RSum(ws_of(variances, pooled))]

\* sum_erw**2 / t_score**2 - sum_rw
failsafe_k(sum_erw, sum_rw, t_square) == RSub(RDiv(RSquare(sum_erw), t_square), sum_rw)

\* "if k < 0: k = 0"
clamp_k(k) == IF RLt(k, Zero) THEN Zero ELSE k

\* round(x) of a float: nan and the infinities raise
round_raises(x) == IF IsNaN(x) THEN "ValueError" ELSE IF ~IsFinite(x) THEN "OverflowError" ELSE "none"

\* rosenberg_failsafe_random down to the head of its first loop
rosenberg_start(effects, variances) ==
    LET n == Len(effects)
        weights == List([i \in 1..n |-> RRecip(variances[i])])
        g == mean_effect_var_and_q(effects, weights)
        pooled_var == pooled_var_no_structure(g.qt, g.sum_w, g.sum_w2, n - 1)
        s == random_weight_sums(effects, variances, pooled_var)
    IN [effects |-> effects, variances |-> variances, weights |-> weights, n |-> n,
        sum_w |-> g.sum_w, sum_w2 |-> g.sum_w2, sum_ew |-> g.sum_ew,
        pooled_var |-> pooled_var, sum_erw |-> s.sum_erw, sum_rw |-> s.sum_rw,
        k |-> clamp_k(failsafe_k(s.sum_erw, s.sum_rw, t_ppf_square(n))),
        iters |-> 0, pooled_new |-> Zero, quit_loop |-> FALSE, output |-> <<>>]

\* Qt about r_mean
q_about(l, r_mean) ==
    RSum([i \in 1..l.n |-> RMul(l.weights[i], RSquare(RSub(l.effects[i], r_mean)))])

\* what a pass does once pooled_new is known: t_square belongs to the pass; the first
\* loop stops when round(k) == round(tmp_k), the second when j == round(tmp_k*n/sum_w)
pass_update(l, pooled_new, t_square, first, j) ==
    IF RGt(pooled_new, Zero)
    THEN LET s == random_weight_sums(l.effects, l.variances, pooled_new)
             tmp_k == failsafe_k(s.sum_erw, s.sum_rw, t_square)
             Same(x) == IF first THEN PyRound(l.k) = PyRound(x)
                        ELSE j = PyRound(RDiv(RMul(x, R(l.n)), l.sum_w))
         IN [exc |-> IF round_raises(tmp_k) # "none" THEN round_raises(tmp_k) ELSE "none",
             l |-> [l EXCEPT !.iters = @ + 1, !.pooled_new = pooled_new,
                             !.sum_erw = s.sum_erw, !.sum_rw = s.sum_rw,
                             !.quit_loop = IF round_raises(tmp_k) = "none" THEN Same(tmp_k) ELSE FALSE,
                             !.k = IF round_raises(tmp_k) = "none" /\ Same(tmp_k) THEN @ ELSE tmp_k]]
    ELSE [exc |-> "none",
          l |-> [l EXCEPT !.iters = @ + 1, !.pooled_new = pooled_new, !.quit_loop = TRUE]]

\* one pass of the first loop: a single study of weight k and effect 0 is added
first_loop_pass(l) ==
    LET r_mean == RDiv(l.sum_ew, RAdd(l.sum_w, l.k))
        qtr == RAdd(q_about(l, r_mean), RMul(l.k, RSquare(r_mean)))
        pooled_new == RDiv(RSub(qtr, R(l.n)),
                           RSub(RAdd(l.sum_w, l.k),
                                RDiv(RAdd(l.sum_w2, RSquare(l.k)), RAdd(l.sum_w, l.k))))
    IN IF round_raises(l.k) # "none" /\ RGt(pooled_new, Zero)
       THEN [exc |-> round_raises(l.k), l |-> l]
       ELSE pass_update(l, pooled_new, t_ppf_square(l.n), TRUE, 0)

\* the line of output of a fixed point
failsafe_line(kind, l, k_out) ==
    [kind |-> kind, arg |-> IF RGt(l.pooled_new, Zero) THEN <<k_out>> ELSE <<>>]

\* between the loops: the first line of output and the start of the second fixed point;
\* rw and sum_erw are taken again under pooled_var, sum_rw is not assigned
second_start(l) ==
    LET k_1 == clamp_k(RDiv(RMul(l.k, R(l.n)), l.sum_w))
        sum_erw == random_weight_sums(l.effects, l.variances, l.pooled_var).sum_erw
    IN [l EXCEPT !.output = @ \o <<failsafe_line("failsafe_one_study", l, k_1)>>,
                 !.sum_erw = sum_erw,
                 !.k = clamp_k(failsafe_k(sum_erw, l.sum_rw, t_ppf_square(l.n))),
                 !.quit_loop = FALSE, !.iters = 0]

\* one pass of the second loop: j studies of the average weight and effect 0 are added
second_loop_pass(l) ==
    LET r_mean == RDiv(l.sum_ew, RAdd(l.sum_w, l.k))
        kn == RDiv(RMul(l.k, R(l.n)), l.sum_w)
        j == IF round_raises(kn) = "none" THEN PyRound(kn) ELSE 0
        extra == IF j > 0 THEN j ELSE 0
        avg_w == RDiv(l.sum_w, R(l.n))
        qtr == RAdd(q_about(l, r_mean), RMul(R(extra), RMul(avg_w, RSquare(r_mean))))
        extra_w2 == RMul(R(extra), RSquare(avg_w))
        pooled_new == RDiv(RSub(qtr, R(l.n + 1 - j)),
                           RSub(RAdd(l.sum_w, l.k),
                                RDiv(RAdd(l.sum_w2, extra_w2), RAdd(l.sum_w, l.k))))
    IN IF round_raises(kn) # "none"
       THEN [exc |-> round_raises(kn), l |-> l]
       ELSE pass_update(l, pooled_new, t_ppf_square(l.n - 1 + j), FALSE, j)

\* the second line of output
failsafe_output(l) ==
    l.output \o <<failsafe_line("failsafe_n_studies", l,
                                clamp_k(RDiv(RMul(l.k, R(l.n)), l.sum_w)))>>

\* "while (iters < 1000) and not quit_loop" is false
failsafe_loop_ended(l) == ~(l.iters < IterationCap /\ ~l.quit_loop)

-----------------------------------------------------------------------------

-----------------------------------------------------------------------------
(* Cumulative meta-analysis *)

\* the row test of cumulative_meta_analysis
ValidCumulative(opt, r) ==
    ValidEV(opt, r) /\ ~IsNone(check_value(r, opt.cumulative_order, VALUE_ANY))

\* cumulative_meta_analysis, the filtering loop: tmp_data holds [g, e, v] for a valid row
cumulative_input(opt) ==
    LET f == FilterRows(List([r \in 1..Len(data.rows) |-> ValidCumulative(opt, r)]))
    IN [n |-> Len(f.rows),
        blocks |-> output_filtered_bad(f.filtered, f.bad_data),
        tmp_data |-> List([i \in 1..Len(f.rows) |->
                             <<check_value(f.rows[i], opt.cumulative_order, VALUE_ANY),
                               data.rows[f.rows[i]].cells[opt.effect_data].n,
                               data.rows[f.rows[i]].cells[opt.effect_vars].n>>])]

\* Python's order of two values of the order column that are both numbers or both strings
value_lt(a, b) == IF a.t = "num" THEN a.n < b.n ELSE LabelRank(a.s) < LabelRank(b.s)

\* Python's a <= b for two lists [g, e, v]: the first items that differ decide
list_le(a, b) ==
    IF a[1] # b[1] THEN value_lt(a[1], b[1])
    ELSE IF a[2] # b[2] THEN a[2] < b[2]
    ELSE a[3] <= b[3]

\* tmp_data.sort(): a number and a string cannot be compared; otherwise the lists come in
\* ascending order
list_sort(tmp_data) ==
    IF \E i, j \in 1..Len(tmp_data) : tmp_data[i][1].t # tmp_data[j][1].t
    THEN [exc |-> "TypeError", sorted |-> <<>>]
    ELSE LET p == CHOOSE q \in Perms(Len(tmp_data)) :
                      \A i \in 1..(Len(tmp_data) - 1) : list_le(tmp_data[q[i]], tmp_data[q[i + 1]])
         IN [exc |-> "none", sorted |-> List([i \in 1..Len(tmp_data) |-> tmp_data[p[i]]])]

\* one pass of "for ns in range(2, n+1)": the statistics of the first ns studies; order
\* is what argsort returns for their effect sizes
cumulative_step(opt, tmp_e, tmp_w, tmp_v, order) ==
    LET g == mean_effect_var_and_q(tmp_e, tmp_w)
        median_e == median_effect(tmp_e, tmp_w, order)
        pooled_var == pooled_var_no_structure(g.qt, g.sum_w, g.sum_w2, Len(tmp_e) - 1)
        r == IF opt.random_effects
             THEN mean_effect_var_and_q(tmp_e, ws_of(tmp_v, pooled_var)) ELSE g
    IN [exc |-> median_e.exc, ns |-> Len(tmp_e), mean_e |-> r.mean_e, median_e |-> median_e.value,
        var_e |-> r.var_e, qt |-> r.qt, df |-> Len(tmp_e) - 1, pooled_var |-> pooled_var]

\* the loop over the prefixes; orders[ns - 1] is the order argsort returns in pass ns
cumulative_steps(opt, e_data, w_data, v_data, orders) ==
    List([k \in 1..(Len(e_data) - 1) |->
            cumulative_step(opt, SubSeq(e_data, 1, k + 1), SubSeq(w_data, 1, k + 1),
                            SubSeq(v_data, 1, k + 1), orders[k])])

\* the orders argsort may return in the passes of the loop, one for every prefix
CumulativeOrders(e_data) ==
    {orders \in [1..(Len(e_data) - 1) ->
                    UNION {ArgSorts(SubSeq(e_data, 1, k + 1)) : k \in 1..(Len(e_data) - 1)}] :
        \A k \in 1..(Len(e_data) - 1) : orders[k] \in ArgSorts(SubSeq(e_data, 1, k + 1))}

\* the arrays built from the sorted list
cumulative_arrays(sorted) ==
    [e_data |-> List([i \in 1..Len(sorted) |-> R(sorted[i][2])]),
     v_data |-> List([i \in 1..Len(sorted) |-> R(sorted[i][3])]),
     w_data |-> List([i \in 1..Len(sorted) |-> RRecip(R(sorted[i][3]))])]

\* the values of simple_meta_analysis that are set again under random effects: the median
\* is taken under the weights of the model
simple_median(opt, e_data, w_data, v_data, pooled_var, order) ==
    IF opt.random_effects THEN median_effect(e_data, ws_of(v_data, pooled_var), order)
    ELSE median_effect(e_data, w_data, order)

\* the first exception raised in the passes of the loop
steps_exc(steps) ==
    IF \E k \in 1..Len(steps) : steps[k].exc # "none"
    THEN steps[CHOOSE k \in 1..Len(steps) :
                   steps[k].exc # "none" /\ \A j \in 1..(k - 1) : steps[j].exc = "none"].exc
    ELSE "none"

\* cumulative_meta_analysis after the filtering loop
cumulative_computed(opt, inp, srt, orders) ==
    IF inp.n > 1 THEN
        IF srt.exc # "none" THEN [exc |-> srt.exc, blocks |-> <<>>, values |-> NoValues]
        ELSE LET a == cumulative_arrays(srt.sorted)
                 steps == cumulative_steps(opt, a.e_data, a.w_data, a.v_data, orders)
             IN [exc |-> steps_exc(steps),
                 blocks |-> inp.blocks \o <<[kind |-> "studies_included", arg |-> inp.n],
                                            [kind |-> "cumulative_results", arg |-> <<>>]>>,
                 values |-> [isNone |-> FALSE, n |-> inp.n, e_data |-> a.e_data,
                             v_data |-> a.v_data, cumulative |-> steps]]
    ELSE [exc |-> "none",
          blocks |-> inp.blocks \o <<[kind |-> "fewer_than_two_studies", arg |-> <<>>]>>,
          values |-> NoValues]

-----------------------------------------------------------------------------
(* Specification of the nested analyzer *)

MaxDeepRows == 4

\* effect size and variance pairs of the rows loaded
NestedEV == {<<0, 1>>, <<1, 2>>}

\* rows with a label in each of the three label columns
NestedRowSet ==
    {[EmptyCells EXCEPT !["e"] = NumCell(ev[1]), !["v"] = NumCell(ev[2]),
                        !["g1"] = StrCell(g1), !["g2"] = StrCell(g2), !["g3"] = StrCell(g3)] :
        ev \in NestedEV, g1 \in {"A", "B"}, g2 \in {"a", "b"}, g3 \in {"c", "d"}}

NestedOptionSet ==
    {[DefaultOptions EXCEPT !.structure = "nested", !.nested_vars = lv, !.randomize_model = k] :
        lv \in {<<"g1", "g2">>, <<"g1", "g2", "g3">>}, k \in {0}}

InitNested ==
    /\ data = EmptyData
    /\ options = DefaultOptions
    /\ pc = "idle"
    /\ loc = [rep |-> 0]
    /\ out = Returned("none", <<>>, NoValues, 0)

\* a row is loaded into the data source; rows come ordered by their labels and values
NestedLoadRow ==
    /\ pc = "idle"
    /\ Len(data.rows) < MaxDeepRows
    /\ \E cells \in NestedRowSet :
         /\ Len(data.rows) > 0 => LexLe(RowKey(data.rows[Len(data.rows)].cells), RowKey(cells))
         /\ data' = add_row(data, cells)
    /\ UNCHANGED <<options, pc, loc, out>>

\* the nested analysis is run on the rows loaded, without a randomization test
NestedRun == \E opt \in NestedOptionSet : NestedCall(opt)

NextNested == NestedLoadRow \/ NestedRun

SpecNested == InitNested /\ [][NextNested]_vars


-----------------------------------------------------------------------------
(* Specification of the analyzers with a model: grouped, regression, GLM, nested *)

MaxRows == 6
MaxRandRows == 4
MaxReps == 2

\* rows with an effect size, a variance, a group label and a covariate value
ModelRowSet ==
    {[EmptyCells EXCEPT !["e"] = NumCell(ev[1]), !["v"] = NumCell(ev[2]),
                        !["g1"] = StrCell(g1), !["x"] = NumCell(x)] :
        ev \in NestedEV, g1 \in {"A", "B"}, x \in {0, 1}}

\* the analyses run: the nested one takes the covariate column as its second level
ModelOptionSet ==
    {[DefaultOptions EXCEPT !.structure = "grouped", !.random_effects = re] : re \in BOOLEAN}
    \cup {[DefaultOptions EXCEPT !.structure = "regression", !.random_effects = re] : re \in BOOLEAN}
    \cup {[DefaultOptions EXCEPT !.structure = "glm", !.random_effects = re,
                                 !.continuous_vars = cv[1], !.categorical_vars = cv[2]] :
             re \in BOOLEAN, cv \in {<<<<"x">>, <<>>>>, <<<<"x">>, <<"g1">>>>}}
    \cup {[DefaultOptions EXCEPT !.structure = "nested", !.nested_vars = <<"g1", "x">>]}

InitModel ==
    /\ data = EmptyData
    /\ options = DefaultOptions
    /\ pc = "idle"
    /\ loc = [rep |-> 0]
    /\ out = Returned("none", <<>>, NoValues, 0)

\* a row is loaded into the data source; rows come ordered by their labels and values
ModelLoadRow ==
    /\ pc = "idle"
    /\ Len(data.rows) < MaxRows
    /\ \E cells \in ModelRowSet :
         /\ Len(data.rows) > 0 => LexLe(RowKey(data.rows[Len(data.rows)].cells), RowKey(cells))
         /\ data' = add_row(data, cells)
    /\ UNCHANGED <<options, pc, loc, out>>

\* the number of replicates asked for: none, or up to MaxReps on small data
ModelReps == IF Len(data.rows) <= MaxRandRows THEN 0..MaxReps ELSE {0}

ModelRunGrouped ==
    \E opt \in ModelOptionSet, k \in ModelReps : GroupedCall([opt EXCEPT !.randomize_model = k])

ModelRunRegression ==
    \E opt \in ModelOptionSet, k \in ModelReps : RegressionCall([opt EXCEPT !.randomize_model = k])

ModelRunGlm ==
    \E opt \in ModelOptionSet, k \in ModelReps : GlmCall([opt EXCEPT !.randomize_model = k])

ModelRunNested ==
    \E opt \in ModelOptionSet, k \in ModelReps : NestedCall([opt EXCEPT !.randomize_model = k])

NextModel ==
    \/ ModelLoadRow
    \/ ModelRunGrouped \/ GroupedRandRep \/ GroupedRandDone
    \/ ModelRunRegression \/ RegressionRandRep \/ RegressionRandDone
    \/ ModelRunGlm \/ GlmRandRep \/ GlmRandDone
    \/ ModelRunNested \/ NestedRandRep \/ NestedRandDone

SpecModel == InitModel /\ [][NextModel]_vars

-----------------------------------------------------------------------------
(* Specification of the functions called on their own: the arguments are drawn at the *)
(* start, the call is the only step                                                   *)

MaxMedianLen == 4
MaxMedianEffect == 4
MaxMedianWeight == 2

\* the arguments of median_effect: effect sizes and positive weights of the same length
MedianInputs ==
    UNION {{[fn |-> "median_effect", e |-> List([i \in 1..k |-> R(e[i])]),
             w |-> List([i \in 1..k |-> R(w[i])])] :
              e \in [1..k -> 1..MaxMedianEffect], w \in [1..k -> 1..MaxMedianWeight]} :
           k \in 1..MaxMedianLen}

MaxI2N == 5

\* the arguments of calc_i2: Q as a Python float or a numpy.float64, and the study count
I2Inputs ==
    {[fn |-> "calc_i2", qt |-> Norm(q, 2), n |-> n, is_numpy |-> t] :
        q \in 0..(2 * MaxI2N + 2), n \in 2..MaxI2N, t \in BOOLEAN}

\* the values exp(z*|se_ln_h|) is drawn from
I2Spreads == {One, <<3, 2>>, R(2), R(5)}

MaxBootN == 4

\* the confidence levels of the bootstrap intervals
BootAlphas == {<<1, 20>>, <<1, 5>>, <<9, 10>>}

\* bootstrap_means at the end of its resampling loop: the number of replicates, alpha, and
\* the number f of replicate means that were below the observed mean
BootInputs ==
    {[fn |-> "bootstrap_means", bootstrap_n |-> n, alpha |-> a, f |-> f] :
        n \in 1..MaxBootN, a \in BootAlphas, f \in 0..MaxBootN}

FunctionInputs == MedianInputs \cup I2Inputs \cup {b \in BootInputs : b.f <= b.bootstrap_n}

InitFunctions ==
    /\ data = EmptyData
    /\ options = DefaultOptions
    /\ pc = "idle"
    /\ loc \in FunctionInputs
    /\ out = Returned("none", <<>>, NoValues, 0)

\* median_effect is called; order is what argsort returned
CallMedianEffect ==
    /\ pc = "idle"
    /\ loc.fn = "median_effect"
    /\ \E order \in ArgSorts(loc.e) :
         out' = [fn |-> "median_effect", order |-> order, ret |-> median_effect(loc.e, loc.w, order)]
    /\ pc' = "done"
    /\ UNCHANGED <<data, options, loc>>

\* calc_i2 is called
CallCalcI2 ==
    /\ pc = "idle"
    /\ loc.fn = "calc_i2"
    /\ \E spread \in I2Spreads :
         out' = [fn |-> "calc_i2", ret |-> calc_i2(loc.qt, loc.n, loc.is_numpy, spread)]
    /\ pc' = "done"
    /\ UNCHANGED <<data, options, loc>>

\* bootstrap_means sorts its means and reads the four confidence limits
CallBootstrapMeans ==
    /\ pc = "idle"
    /\ loc.fn = "bootstrap_means"
    /\ out' = [fn |-> "bootstrap_means",
               ret |-> bootstrap_indices(loc.bootstrap_n, loc.alpha, loc.f)]
    /\ pc' = "done"
    /\ UNCHANGED <<data, options, loc>>

NextFunctions == CallMedianEffect \/ CallCalcI2 \/ CallBootstrapMeans

SpecFunctions == InitFunctions /\ [][NextFunctions]_vars

-----------------------------------------------------------------------------
(* Specification of the analyses of the effect sizes alone: the simple analysis and the *)
(* GLM without predictors                                                               *)

MaxSimpleRows == 4

\* the effect sizes and the variances of the rows; a variance of 0 makes a row invalid
SimpleEffects == {0, 1, 2}
SimpleVars == {0, 1, 2}

SimpleRowSet ==
    {[EmptyCells EXCEPT !["e"] = NumCell(e), !["v"] = NumCell(v)] :
        e \in SimpleEffects, v \in SimpleVars}

SimpleOptionSet ==
    {[DefaultOptions EXCEPT !.structure = s, !.random_effects = re] :
        s \in {"none", "glm"}, re \in BOOLEAN}

SimpleLoadRow ==
    /\ pc = "idle"
    /\ Len(data.rows) < MaxSimpleRows
    /\ \E cells \in SimpleRowSet :
         /\ Len(data.rows) > 0 => LexLe(RowKey(data.rows[Len(data.rows)].cells), RowKey(cells))
         /\ data' = add_row(data, cells)
    /\ UNCHANGED <<options, pc, loc, out>>

\* simple_meta_analysis is called
SimpleCall(opt) ==
    /\ pc = "idle"
    /\ opt.structure = "none"
    /\ options' = opt
    /\ AnalyzerOutcome("simple", opt, simple_prepare(opt), "none")
    /\ UNCHANGED data

SimpleRunSimple == \E opt \in SimpleOptionSet : SimpleCall(opt)

SimpleRunGlm == \E opt \in SimpleOptionSet : GlmCall(opt)

NextSimple == SimpleLoadRow \/ SimpleRunSimple \/ SimpleRunGlm

SpecSimple == InitModel /\ [][NextSimple]_vars

-----------------------------------------------------------------------------
(* Specification of the rank correlation analysis with its randomization test *)

MaxRankRows == 3

\* rows with an effect size and a variance; a variance of 0 makes a row invalid
RankRowSet ==
    {[EmptyCells EXCEPT !["e"] = NumCell(e), !["v"] = NumCell(v)] :
        e \in {0, 1, 2}, v \in {0, 1, 2, 3}}

RankOptionSet ==
    {[DefaultOptions EXCEPT !.structure = "rankcor", !.cor_test = t, !.random_effects = re,
                            !.randomize_model = k] :
        t \in {"tau", "rho"}, re \in BOOLEAN, k \in 1..MaxReps}

RankLoadRow ==
    /\ pc = "idle"
    /\ Len(data.rows) < MaxRankRows
    /\ \E cells \in RankRowSet :
         /\ Len(data.rows) > 0 => LexLe(RowKey(data.rows[Len(data.rows)].cells), RowKey(cells))
         /\ data' = add_row(data, cells)
    /\ UNCHANGED <<options, pc, loc, out>>

RankRun == \E opt \in RankOptionSet : RankCall(opt)

NextRank == RankLoadRow \/ RankRun \/ RankRandRep \/ RankRandDone

SpecRank == InitModel /\ [][NextRank]_vars

-----------------------------------------------------------------------------
(* Specification of the phylogeny: a Newick string is imported, then the    *)
(* correlation matrix of the tips named by the data rows is computed        *)

MaxTips == 3
MaxTipRows == 3

\* the names of the taxa
TaxonNames == {<<"A">>, <<"B">>, <<"C", "D">>}

\* the text of a tip: its name, with a branch length or without
LeafTexts(name) == {name, name \o <<":", "2">>}

\* what follows the closing parenthesis of a clade: nothing, a branch length or a label
CladeSuffixes == {<<>>, <<":", "0">>, <<":", "2">>, <<"X">>}

\* the separators of sister subtrees: a comma, alone or followed by a blank
Separators == {<<",">>, <<",", " ">>}

RECURSIVE Forests(_, _)

\* the Newick texts of the subtrees whose tips are, from left to right, names
RECURSIVE Subtrees(_, _)
Subtrees(names, sep) ==
    IF Len(names) = 1 THEN LeafTexts(names[1])
    ELSE {<<"(">> \o f \o <<")">> \o suf :
            f \in UNION {{a \o sep \o b : a \in Subtrees(SubSeq(names, 1, k), sep),
                                          b \in Forests(SubSeq(names, k + 1, Len(names)), sep)} :
                         k \in 1..(Len(names) - 1)},
            suf \in CladeSuffixes}

\* the texts of one or more sister subtrees with these tips
Forests(names, sep) ==
    Subtrees(names, sep) \cup
    UNION {{a \o sep \o b : a \in Subtrees(SubSeq(names, 1, k), sep),
                            b \in Forests(SubSeq(names, k + 1, Len(names)), sep)} :
           k \in 1..(Len(names) - 1)}

TipOrders ==
    UNION {{ns \in [1..k -> TaxonNames] : \A i, j \in 1..k : ns[i] = ns[j] => i = j} :
           k \in 1..MaxTips}

NewickStrings ==
    {s \o <<";">> : s \in UNION {Subtrees(ns, sep) : ns \in TipOrders, sep \in Separators}}

\* the tip names of the valid data rows: each row names a tip of the tree
TipRowNames(tips) == UNION {[1..k -> Range(tips)] : k \in 0..MaxTipRows}

InitTree ==
    /\ data = EmptyData
    /\ options = DefaultOptions
    /\ pc = "idle"
    /\ loc \in {[tree_str |-> s] : s \in NewickStrings}
    /\ out = Returned("none", <<>>, NoValues, 0)

\* the tree is imported from its string
ImportTree ==
    /\ pc = "idle"
    /\ "tree_str" \in DOMAIN loc
    /\ LET r == read_newick_tree(loc.tree_str)
       IN out' = [fn |-> "read_newick_tree", exc |-> r.exc, tree |-> r.tree, root |-> r.root,
                  tips |-> IF r.exc = "none" THEN tip_names(r.tree, r.root) ELSE <<>>,
                  n_tips |-> IF r.exc = "none" THEN n_tips(r.tree, r.root) ELSE 0]
    /\ pc' = "tree"
    /\ UNCHANGED <<data, options, loc>>

\* the phylogenetic analysis computes the correlation matrix of its valid rows
CallPhylogeneticCorrelation ==
    /\ pc = "tree"
    /\ out.exc = "none"
    /\ \E names \in TipRowNames(out.tips) :
         /\ loc' = [tree_str |-> loc.tree_str, tree |-> out.tree, root |-> out.root,
                    tip_names |-> List(names)]
         /\ out' = [fn |-> "phylogenetic_correlation",
                    ret |-> phylogenetic_correlation(List(names), out.tree, out.root)]
    /\ pc' = "done"
    /\ UNCHANGED <<data, options>>

NextTree == ImportTree \/ CallPhylogeneticCorrelation

SpecTree == InitTree /\ [][NextTree]_vars

-----------------------------------------------------------------------------
(* Specification of the phylogenetic analysis: rows are loaded, a tree is    *)
(* imported, and phylogenetic_meta_analysis runs on them with fixed effects *)

MaxPhyloRows == 3

\* the Newick strings of the trees: three tips, two of them sisters, at a positive distance
\* from their common ancestor or at distance 0
PhyloStrings ==
    {<<"(", "(", "A", ":", "2", ",", "B", ":", "2", ")", ":", "2", ",", "C", ":", "4", ")", ":", "0", ";">>,
     <<"(", "(", "A", ":", "0", ",", "B", ":", "0", ")", ":", "2", ",", "C", ":", "2", ")", ":", "0", ";">>}

\* the tip names of the rows: the tips of the trees and a name no tree has
PhyloTipCells == {StrCell("A"), StrCell("B"), StrCell("C"), StrCell("D")}

PhyloEffects == {0, 1}

\* the variances, squares of whole numbers
PhyloVars == {1, 4}

\* the values of the covariate
PhyloCovariates == {0, 1}

PhyloRowSet ==
    {[EmptyCells EXCEPT !["e"] = NumCell(e), !["v"] = NumCell(v), !["x"] = NumCell(x),
                        !["tip"] = t] :
        e \in PhyloEffects, v \in PhyloVars, x \in PhyloCovariates, t \in PhyloTipCells}

\* the analysis of the mean alone or with the covariate as the predictor
PhyloOptionSet ==
    {[DefaultOptions EXCEPT !.structure = "phylogenetic", !.continuous_vars = cv] :
        cv \in {<<>>, <<"x">>}}

InitPhylo ==
    /\ data = EmptyData
    /\ options = DefaultOptions
    /\ pc = "idle"
    /\ loc \in {[tree_str |-> s] : s \in PhyloStrings}
    /\ out = Returned("none", <<>>, NoValues, 0)

PhyloLoadRow ==
    /\ pc = "idle"
    /\ Len(data.rows) < MaxPhyloRows
    /\ \E cells \in PhyloRowSet :
         /\ Len(data.rows) > 0 => LexLe(RowKey(data.rows[Len(data.rows)].cells), RowKey(cells))
         /\ data' = add_row(data, cells)
    /\ UNCHANGED <<options, pc, loc, out>>

\* the phylogenetic analysis is run with the imported tree
PhyloRun ==
    /\ pc = "tree"
    /\ out.fn = "read_newick_tree"
    /\ out.exc = "none"
    /\ \E opt \in PhyloOptionSet :
         /\ options' = opt
         /\ LET r == phylogenetic_meta_analysis(opt, out.tree, out.root)
            IN out' = IF r.exc # "none" THEN Raised("phylogenetic", r.exc)
                      ELSE Returned("phylogenetic", r.blocks, NoValues, r.n)
    /\ loc' = [tree_str |-> loc.tree_str, tree |-> out.tree, root |-> out.root, tips |-> out.tips]
    /\ pc' = "done"
    /\ UNCHANGED data

NextPhylo == PhyloLoadRow \/ ImportTree \/ PhyloRun

SpecPhylo == InitPhylo /\ [][NextPhylo]_vars

-----------------------------------------------------------------------------
(* Specification of the trim and fill analysis: rows are loaded, the analysis is called *)
(* and the passes of its loop are taken one at a time                                   *)

MaxTrimRows == 3

\* the effect sizes and the variances of the rows; the studies of low weight have one
\* effect size
TrimEffects == {0, 1, 2}
TrimVars == {1}
TrimWideEffects == {2}
TrimWideVars == {3}

TrimRowSet ==
    {[EmptyCells EXCEPT !["e"] = NumCell(e), !["v"] = NumCell(v)] :
        e \in TrimEffects, v \in TrimVars}
    \cup {[EmptyCells EXCEPT !["e"] = NumCell(e), !["v"] = NumCell(v)] :
             e \in TrimWideEffects, v \in TrimWideVars}

\* PubBiasOptions() with the columns of the effect sizes and of the variances chosen
PubBiasOptions ==
    [effect_data |-> "e", effect_vars |-> "v", random_effects |-> FALSE, k_estimator |-> "L"]

TrimOptionSet ==
    {[PubBiasOptions EXCEPT !.random_effects = re, !.k_estimator = k] :
        re \in BOOLEAN, k \in {"R", "L", "Q"}}

InitTrimFill ==
    /\ data = EmptyData
    /\ options = PubBiasOptions
    /\ pc = "idle"
    /\ loc = [iterations |-> 0]
    /\ out = Returned("none", <<>>, NoValues, 0)

TrimLoadRow ==
    /\ pc = "idle"
    /\ Len(data.rows) < MaxTrimRows
    /\ \E cells \in TrimRowSet :
         /\ Len(data.rows) > 0 => LexLe(RowKey(data.rows[Len(data.rows)].cells), RowKey(cells))
         /\ data' = add_row(data, cells)
    /\ UNCHANGED <<options, pc, loc, out>>

\* trim_and_fill_analysis is called: the rows are filtered and, with two studies or more,
\* the original mean is taken and the loop is entered
TrimFillCall(opt, inp) ==
    /\ pc = "idle"
    /\ options' = opt
    /\ IF inp.n > 1
       THEN \E order \in ArgSorts(inp.e_data) :
              LET original == trim_fill_mean(opt, "Original Mean", inp.e_data, inp.w_data,
                                             inp.v_data, order, TRUE)
              IN IF original.exc # "none"
                 THEN /\ out' = Raised("trim_fill", original.exc)
                      /\ pc' = "done"
                      /\ loc' = loc
                 ELSE /\ loc' = [trim_n |-> -1, new_trim |-> 0, iterations |-> 0,
                                 tmp_mean_e |-> original.row.mean_e, skew_right |-> TRUE,
                                 order |-> order, inp |-> inp, original |-> original,
                                 tmp_data |-> [e |-> <<>>, w |-> <<>>, v |-> <<>>],
                                 t_pos |-> 0, t_neg |-> 0, t_n |-> 0,
                                 gamma |-> 0, gamma_nan |-> FALSE]
                      /\ pc' = "trim_fill_loop"
                      /\ out' = out
       ELSE /\ out' = Returned("trim_fill",
                               inp.blocks \o <<[kind |-> "fewer_than_two_studies", arg |-> <<>>]>>,
                               NoValues, inp.n)
            /\ pc' = "done"
            /\ loc' = loc
    /\ UNCHANGED data

TrimFillRun == \E opt \in TrimOptionSet : TrimFillCall(opt, trim_fill_input(opt))

\* the state of the loop
LoopState ==
    [trim_n |-> loc.trim_n, new_trim |-> loc.new_trim, iterations |-> loc.iterations,
     tmp_mean_e |-> loc.tmp_mean_e, skew_right |-> loc.skew_right]

\* one pass of the loop
TrimFillPass(d) ==
    /\ pc = "trim_fill_loop"
    /\ ~trim_fill_loop_ended(LoopState)
    /\ \E rank_order \in NumpyArgSorts(List([i \in 1..Len(d.diff) |-> RAbs(d.diff[i])])) :
         LET p == trim_fill_pass(options, loc.inp, LoopState, d, rank_order)
         IN IF p.exc # "none"
            THEN /\ out' = Raised("trim_fill", p.exc)
                 /\ pc' = "done"
                 /\ loc' = loc
            ELSE /\ loc' = [loc EXCEPT !.trim_n = p.st.trim_n, !.new_trim = p.st.new_trim,
                                       !.iterations = p.st.iterations,
                                       !.tmp_mean_e = p.st.tmp_mean_e,
                                       !.skew_right = p.st.skew_right,
                                       !.tmp_data = d.tmp_data,
                                       !.t_pos = p.skew.t_pos, !.t_neg = p.skew.t_neg,
                                       !.t_n = p.skew.t_n, !.gamma = p.skew.gamma,
                                       !.gamma_nan = p.skew.gamma_nan]
                 /\ pc' = pc
                 /\ out' = out
    /\ UNCHANGED <<data, options>>

TrimFillIterate ==
    /\ pc = "trim_fill_loop"
    /\ TrimFillPass(trim_fill_diff(options, loc.inp, loc.order, loc.skew_right, loc.new_trim))

\* the loop has ended: the missing studies are filled in and the means are reported
TrimFillFill(e, w, v) ==
    /\ pc = "trim_fill_loop"
    /\ trim_fill_loop_ended(LoopState)
    /\ \E fill_order \in NumpyArgSorts(e) :
         LET r == trim_fill_output(options, loc.inp, loc.original, LoopState, e, w, v, fill_order)
         IN out' = IF r.exc # "none" THEN Raised("trim_fill", r.exc)
                   ELSE Returned("trim_fill", r.blocks, NoValues, loc.inp.n)
    /\ loc' = [loc EXCEPT !.tmp_data = [e |-> e, w |-> w, v |-> v]]
    /\ pc' = "done"
    /\ UNCHANGED <<data, options>>

TrimFillFinish ==
    /\ pc = "trim_fill_loop"
    /\ TrimFillFill(filled_effects(trim_fill_sorted(loc.inp.e_data, loc.order, loc.skew_right),
                                   loc.trim_n, loc.tmp_mean_e),
                    filled_column(trim_fill_sorted(loc.inp.w_data, loc.order, loc.skew_right),
                                  loc.trim_n),
                    filled_column(trim_fill_sorted(loc.inp.v_data, loc.order, loc.skew_right),
                                  loc.trim_n))

NextTrimFill == TrimLoadRow \/ TrimFillRun \/ TrimFillIterate \/ TrimFillFinish

SpecTrimFill == InitTrimFill /\ [][NextTrimFill]_vars

(* Specification of Rosenberg's fail-safe number under random effects: the function is *)
(* called on two studies and followed through its two loops                            *)

MaxFailsafeLow == 3
MaxFailsafeHigh == 13

\* the loop of a pair of effect sizes three apart takes a second pass; the pairs kept end
\* each loop in its first pass
FailsafePairs ==
    {p \in (0..MaxFailsafeLow) \X (0..MaxFailsafeHigh) : Abs(p[1] - p[2]) # 3}

\* two studies of variance 1, in both orders
FailsafeInputs ==
    {[effects |-> <<R(p[1]), R(p[2])>>, variances |-> <<One, One>>] : p \in FailsafePairs}
    \cup {[effects |-> <<R(p[2]), R(p[1])>>, variances |-> <<One, One>>] : p \in FailsafePairs}

InitFailsafe ==
    /\ data = EmptyData
    /\ options = [DefaultOptions EXCEPT !.random_effects = TRUE]
    /\ pc = "idle"
    /\ loc \in FailsafeInputs
    /\ out = Returned("none", <<>>, NoValues, 0)

\* rosenberg_failsafe_random is called: with a pooled variance of 0 it returns at once
FailsafeCall ==
    /\ pc = "idle"
    /\ LET l == rosenberg_start(loc.effects, loc.variances)
       IN IF RGt(l.pooled_var, Zero)
          THEN /\ loc' = l
               /\ pc' = "first_loop"
               /\ out' = out
          ELSE /\ loc' = l
               /\ pc' = "done"
               /\ out' = Returned("rosenberg_failsafe_random",
                                  <<[kind |-> "rosenberg_fs_rand", arg |-> <<>>]>>, NoValues, l.n)
    /\ UNCHANGED <<data, options>>

\* a pass of the loop at position at
FailsafePass(at, p) ==
    /\ pc = at
    /\ ~failsafe_loop_ended(loc)
    /\ IF p.exc # "none"
       THEN /\ out' = Raised("rosenberg_failsafe_random", p.exc)
            /\ pc' = "done"
            /\ loc' = loc
       ELSE /\ loc' = p.l
            /\ pc' = pc
            /\ out' = out
    /\ UNCHANGED <<data, options>>

FailsafeFirstPass == pc = "first_loop" /\ FailsafePass("first_loop", first_loop_pass(loc))

\* the first loop has ended: its line is put out and the second fixed point is started
FailsafeSecondStart ==
    /\ pc = "first_loop"
    /\ failsafe_loop_ended(loc)
    /\ loc' = second_start(loc)
    /\ pc' = "second_loop"
    /\ UNCHANGED <<data, options, out>>

FailsafeSecondPass == pc = "second_loop" /\ FailsafePass("second_loop", second_loop_pass(loc))

\* the second loop has ended: the function returns
FailsafeReturn ==
    /\ pc = "second_loop"
    /\ failsafe_loop_ended(loc)
    /\ out' = Returned("rosenberg_failsafe_random", failsafe_output(loc), NoValues, loc.n)
    /\ pc' = "done"
    /\ UNCHANGED <<data, options, loc>>

NextFailsafe ==
    FailsafeCall \/ FailsafeFirstPass \/ FailsafeSecondStart \/ FailsafeSecondPass \/ FailsafeReturn

SpecFailsafe == InitFailsafe /\ [][NextFailsafe]_vars

-----------------------------------------------------------------------------

(* Specification of the data container under its editing calls: MetaWinData with the *)
(* value objects told apart by the order of their creation                           *)

MaxDataRows == 2
MaxDataCols == 2
MaxValueObjects == 4

\* what a cell is set to
DataValues == {1, 2}

\* MetaWinData(): rows and cols hold the value lists of the rows and columns, data is the
\* dictionary from (row, column) to a value object, objects the MetaWinValue objects made
NewData == [rows |-> <<>>, cols |-> <<>>, data |-> <<>>, objects |-> <<>>]

\* list.remove(x): the first occurrence is taken out
list_remove(s, x) ==
    LET i == MinOfSet({q \in 1..Len(s) : s[q] = x})
    IN SubSeq(s, 1, i - 1) \o SubSeq(s, i + 1, Len(s))

\* self.data[key] = value and self.data.pop(key)
dict_set(f, key, value) ==
    [q \in DOMAIN f \cup {key} |-> IF q = key THEN value ELSE f[q]]

dict_pop(f, key) == [q \in DOMAIN f \ {key} |-> f[q]]

\* MetaWinData.add_row and add_col
data_add_row(d) == [d EXCEPT !.rows = Append(@, <<>>)]

data_add_col(d) == [d EXCEPT !.cols = Append(@, <<>>)]

\* MetaWinData.value: the value object of a cell, 0 for None; r and c count from 1
value(d, r, c) == IF <<r, c>> \in DOMAIN d.data THEN d.data[<<r, c>>] ELSE 0

\* MetaWinData.add_value
add_value(d, r, c, v) ==
    LET new_value == Len(d.objects) + 1
    IN [d EXCEPT !.objects = Append(@, [row |-> r, col |-> c, value |-> v]),
                 !.rows[r] = Append(@, new_value),
                 !.cols[c] = Append(@, new_value),
                 !.data = dict_set(@, <<r, c>>, new_value)]

\* MetaWinData.delete_value
delete_value(d, r, c) ==
    IF value(d, r, c) # 0
    THEN [d EXCEPT !.rows[d.objects[value(d, r, c)].row] = list_remove(@, value(d, r, c)),
                   !.cols[d.objects[value(d, r, c)].col] = list_remove(@, value(d, r, c)),
                   !.data = dict_pop(@, <<d.objects[value(d, r, c)].row,
                                          d.objects[value(d, r, c)].col>>)]
    ELSE d

\* MetaWinData.replace_value
replace_value(d, r, c, v) == add_value(delete_value(d, r, c), r, c, v)

InitData ==
    /\ data = NewData
    /\ options = DefaultOptions
    /\ pc = "idle"
    /\ loc = [rep |-> 0]
    /\ out = [fn |-> "none"]

DataAddRow ==
    /\ Len(data.rows) < MaxDataRows
    /\ data' = data_add_row(data)
    /\ out' = [fn |-> "add_row"]
    /\ UNCHANGED <<options, pc, loc>>

DataAddCol ==
    /\ Len(data.cols) < MaxDataCols
    /\ data' = data_add_col(data)
    /\ out' = [fn |-> "add_col"]
    /\ UNCHANGED <<options, pc, loc>>

\* add_value is called on a row and a column that exist
DataAddValue ==
    /\ Len(data.objects) < MaxValueObjects
    /\ \E r \in 1..Len(data.rows), c \in 1..Len(data.cols), v \in DataValues :
         data' = add_value(data, r, c, v)
    /\ out' = [fn |-> "add_value"]
    /\ UNCHANGED <<options, pc, loc>>

DataDeleteValue ==
    /\ \E r \in 1..Len(data.rows), c \in 1..Len(data.cols) :
         data' = delete_value(data, r, c)
    /\ out' = [fn |-> "delete_value"]
    /\ UNCHANGED <<options, pc, loc>>

DataReplaceValue ==
    /\ Len(data.objects) < MaxValueObjects
    /\ \E r \in 1..Len(data.rows), c \in 1..Len(data.cols), v \in DataValues :
         data' = replace_value(data, r, c, v)
    /\ out' = [fn |-> "replace_value"]
    /\ UNCHANGED <<options, pc, loc>>

NextData == DataAddRow \/ DataAddCol \/ DataAddValue \/ DataDeleteValue \/ DataReplaceValue

SpecData == InitData /\ [][NextData]_vars

-----------------------------------------------------------------------------

-----------------------------------------------------------------------------
(* Specification of the cumulative analysis: rows are loaded in any order and the *)
(* analysis is called                                                             *)

MaxCumRows == 3

\* the effect sizes, the variances and the values of the order column of the rows
CumEffects == {0, 3}
CumVars == {1, 3}
CumOrderCells == {NumCell(1), NumCell(2), StrCell("a")}

CumRowSet ==
    {[EmptyCells EXCEPT !["e"] = NumCell(e), !["v"] = NumCell(v), !["ord"] = g] :
        e \in CumEffects, v \in CumVars, g \in CumOrderCells}

CumOptionSet ==
    {[DefaultOptions EXCEPT !.structure = "cumulative", !.random_effects = re] : re \in BOOLEAN}

CumLoadRow ==
    /\ pc = "idle"
    /\ Len(data.rows) < MaxCumRows
    /\ \E cells \in CumRowSet : data' = add_row(data, cells)
    /\ UNCHANGED <<options, pc, loc, out>>

\* cumulative_meta_analysis is called
CumulativeCall(opt, inp) ==
    /\ pc = "idle"
    /\ options' = opt
    /\ \E orders \in (IF inp.n > 1 /\ list_sort(inp.tmp_data).exc = "none"
                      THEN CumulativeOrders(cumulative_arrays(list_sort(inp.tmp_data).sorted).e_data)
                      ELSE {<<>>}) :
         LET r == cumulative_computed(opt, inp, list_sort(inp.tmp_data), orders)
         IN out' = IF r.exc # "none" THEN Raised("cumulative", r.exc)
                   ELSE Returned("cumulative", r.blocks, r.values, inp.n)
    /\ pc' = "done"
    /\ UNCHANGED <<data, loc>>

CumulativeRun == \E opt \in CumOptionSet : CumulativeCall(opt, cumulative_input(opt))

NextCumulative == CumLoadRow \/ CumulativeRun

SpecCumulative == InitModel /\ [][NextCumulative]_vars

-----------------------------------------------------------------------------
(* C1 *)

\* the rows the nested analysis called with the current options takes as valid
C1_ValidRows == FilterRows(List([r \in 1..Len(data.rows) |-> ValidNested(options, r)])).rows

\* the labels of row r in the first d nesting columns
C1_Path(r, d) == [k \in 1..d |-> PyStr(data.rows[r].cells[options.nested_vars[k]])]

\* the groups of depth d (1 is the top level) among the valid rows, each as its label path
C1_Groups(d) == {C1_Path(C1_ValidRows[i], d) : i \in 1..Len(C1_ValidRows)}

C1_Size(path) ==
    Cardinality({i \in 1..Len(C1_ValidRows) : C1_Path(C1_ValidRows[i], Len(path)) = path})

\* the groups with fewer than 2 valid rows none of whose ancestors is such a group
C1_SmallGroups ==
    UNION {{g \in C1_Groups(d) :
              /\ C1_Size(g) < 2
              /\ \A k \in 1..(d - 1) : C1_Size(SubSeq(g, 1, k)) >= 2} :
           d \in 1..Len(options.nested_vars)}

C1_Named(g) ==
    \E b \in 1..Len(out.blocks) :
       /\ out.blocks[b].kind = "nest_error"
       /\ out.blocks[b].arg = <<PyString(g[Len(g)]), options.nested_vars[Len(g)]>>

\* C1: a nested analysis of data with at least two valid rows and two top-level groups in
\* which some group at some depth has fewer than 2 valid rows ends without an exception,
\* returns no computed values, and its report names every such group (at least each one
\* that is not inside another such group) with the column of its nesting level
C1_StructuralViolationReported ==
    (/\ pc = "done"
     /\ out.analysis = "nested"
     /\ Len(C1_ValidRows) >= 2
     /\ Cardinality(C1_Groups(1)) >= 2
     /\ C1_SmallGroups # {})
    => (/\ out.exc = "none"
        /\ out.values = NoValues
        /\ \A g \in C1_SmallGroups : C1_Named(g))

\* the case of C1 with two nesting levels, where the report is as claimed
C1_TwoLevelCase ==
    /\ pc = "done"
    /\ out.analysis = "nested"
    /\ Len(options.nested_vars) = 2
    /\ Len(C1_ValidRows) >= 2
    /\ Cardinality(C1_Groups(1)) >= 2
    /\ \E g \in C1_SmallGroups : Len(g) = 2
    /\ out.exc = "none"
    /\ \A g \in C1_SmallGroups : C1_Named(g)

-----------------------------------------------------------------------------
(* C2 *)

\* an analysis with a model has returned values
C2_Reported(analysis) == pc = "done" /\ out.analysis = analysis /\ ~out.values.isNone

\* the reported model Q: in the nested analysis the sum over the nesting levels
C2_ModelQ ==
    IF out.analysis = "nested"
    THEN RSum([i \in 1..Len(out.values.model_het_values) |-> out.values.model_het_values[i].q])
    ELSE out.values.qm

C2_ErrorQ == IF out.analysis = "nested" THEN out.values.error_het_values.q ELSE out.values.qe

C2_TotalQ == IF out.analysis = "nested" THEN out.values.global_values.qt ELSE out.values.qt

\* C2: whenever the grouped, regression, GLM or nested analyzer reports its Q values, the
\* total Q is the model Q plus the error Q; for the nested analyzer the model Q values of
\* all levels plus the error Q of the deepest level add up to the total Q
C2_QPartition ==
    (\E a \in {"grouped", "regression", "glm", "nested"} : C2_Reported(a))
        => C2_TotalQ = RAdd(C2_ModelQ, C2_ErrorQ)

\* a nested analysis with a positive model Q at each of its two levels and a positive
\* error Q, whose Q values add up to the total Q
C2_NestedCase ==
    /\ C2_Reported("nested")
    /\ \A i \in 1..Len(out.values.model_het_values) :
          RGt(out.values.model_het_values[i].q, Zero)
    /\ RGt(C2_ErrorQ, Zero)
    /\ C2_TotalQ = RAdd(C2_ModelQ, C2_ErrorQ)

(***************************************************************************)
(***************************************************************************)
(***************************************************************************)
(* C3 *)
(***************************************************************************)
\* the phylogenetic analysis has been called
C3_Called == pc = "done" /\ out.analysis = "phylogenetic"

\* the rows of the data source the analysis takes as valid observations
C3_ValidRows ==
    {r \in 1..Len(data.rows) : not_filtered(data.rows[r]) /\ ValidPhylo(options, r, loc.tips)}

C3_HasBlock(kind) == \E i \in 1..Len(out.blocks) : out.blocks[i].kind = kind

\* C3: the phylogenetic analyzer called on data with fewer than 2 valid observations, none
\* at all included, raises no exception, adds the message that fewer than two studies were
\* valid, computes nothing further and returns no result values
C3_InsufficiencyReported ==
    (C3_Called /\ Cardinality(C3_ValidRows) < 2)
        => /\ out.exc = "none"
           /\ C3_HasBlock("fewer_than_two_studies")
           /\ ~C3_HasBlock("studies_included")
           /\ out.values.isNone

\* one row names a tip of the tree, another does not: the message is reported
C3_OneValidRow ==
    /\ C3_Called
    /\ Len(data.rows) = 2
    /\ Cardinality(C3_ValidRows) = 1
    /\ out.exc = "none"
    /\ C3_HasBlock("fewer_than_two_studies")
    /\ C3_HasBlock("invalid")

(***************************************************************************)
(* C4 *)
(***************************************************************************)
\* the data passed the checks of the study count and of the categories
C4_PassedChecks ==
    /\ pc = "done" /\ out.analysis = "phylogenetic"
    /\ check_data_for_glm(Cardinality(C3_ValidRows), <<>>, options.categorical_vars).ok

\* C4: when the data passed the checks of the phylogenetic GLM analysis, no failure of a
\* matrix inversion leaves the analysis as an exception
C4_InversionFailureCaught == C4_PassedChecks => out.exc # "LinAlgError"

\* the covariate has one value: the inversion in calculate_glm fails, and the failure is
\* reported as the analysis error of a singular matrix
C4_CaughtCase ==
    /\ C4_PassedChecks
    /\ out.exc = "none"
    /\ \E i \in 1..Len(out.blocks) :
          out.blocks[i] = [kind |-> "analysis_error", arg |-> "AE-singular"]

(***************************************************************************)
(* C5 *)
(***************************************************************************)
\* the three classes of the rows, as the data source and the tree define them
C5_PreFiltered(r) ==
    \/ ~data.rows[r].include_row
    \/ \E c \in Cols : PyStr(data.rows[r].cells[c]) \in data.group_filter[c]

C5_Lacks(r, c) == data.rows[r].cells[c].t = "none"

C5_Invalid(r) ==
    /\ ~C5_PreFiltered(r)
    /\ \/ data.rows[r].cells[options.effect_data].t # "num"
       \/ data.rows[r].cells[options.effect_vars].t # "num"
       \/ data.rows[r].cells[options.effect_vars].n <= 0
       \/ \E k \in 1..Len(options.continuous_vars) : C5_Lacks(r, options.continuous_vars[k])
       \/ \E k \in 1..Len(options.categorical_vars) : C5_Lacks(r, options.categorical_vars[k])
       \/ C5_Lacks(r, options.tip_names)
       \/ \A i \in 1..Len(loc.tips) : loc.tips[i] # <<data.rows[r].cells[options.tip_names].s>>

C5_Included(r) == ~C5_PreFiltered(r) /\ ~C5_Invalid(r)

\* the labels of the rows of a class, in the order of the rows
C5_Labels(Class(_)) ==
    LET rs == SelectSeq(IdxSeq(Len(data.rows)), Class)
    IN [i \in 1..Len(rs) |-> data.rows[rs[i]].label]

\* the labels a report block of the output lists; none if the output has no such block
C5_Listed(kind) ==
    IF \E i \in 1..Len(out.blocks) : out.blocks[i].kind = kind
    THEN (CHOOSE b \in Range(out.blocks) : b.kind = kind).arg
    ELSE <<>>

\* C5: after a phylogenetic analysis the invalid-data block lists the labels of exactly the
\* rows that are not pre-filtered and lack a numeric effect, a positive variance, a needed
\* covariate or a tip name of the tree, and n counts exactly the other rows that are not
\* pre-filtered
C5_RowsClassified ==
    (pc = "done" /\ out.analysis = "phylogenetic")
        => /\ C5_Listed("invalid") = C5_Labels(C5_Invalid)
           /\ C5_Listed("prefiltered") = C5_Labels(C5_PreFiltered)
           /\ out.n = Len(C5_Labels(C5_Included))

\* two rows name tips of the tree and one does not: it is listed, the two are analyzed
C5_MixedCase ==
    /\ pc = "done" /\ out.analysis = "phylogenetic" /\ out.exc = "none"
    /\ Len(data.rows) = 3
    /\ Len(C5_Labels(C5_Invalid)) = 1
    /\ C5_Listed("invalid") = C5_Labels(C5_Invalid)
    /\ out.n = 2

C7_Loops == {"grouped_rand", "regression_rand", "glm_rand", "nested_rand"}

\* the counts a randomization loop holds: one per nesting level, one otherwise
C7_Counts ==
    IF pc = "nested_rand" THEN loc.cnt_list
    ELSE IF pc \in C7_Loops THEN <<loc.cnt>>
    ELSE <<>>

\* the (count, iterations, p) triples of a finished analysis that ran a randomization test
C7_Reported ==
    IF pc # "done" \/ out.exc # "none" \/ out.values.isNone THEN {}
    ELSE IF out.analysis = "nested"
    THEN {<<h.cnt, h.nreps, h.p_random>> : h \in {out.values.model_het_values[i] :
              i \in 1..Len(out.values.model_het_values)}}
    ELSE {<<out.values.cnt, out.values.nreps, out.values.p_random>>}

C7_PRange ==
    \A t \in C7_Reported :
        t[2] >= 1 => /\ t[3] = Norm(t[1], t[2] + 1)
                     /\ RLe(Norm(1, t[2] + 1), t[3])
                     /\ RLe(t[3], One)

\* entering a loop sets every count to 1; a replicate raises each count by 0 or 1
C7_Step ==
    /\ (pc \notin C7_Loops /\ pc' \in C7_Loops)
          => \A i \in 1..Len(C7_Counts') : C7_Counts'[i] = 1
    /\ (pc \in C7_Loops /\ pc' = pc)
          => /\ Len(C7_Counts') = Len(C7_Counts)
             /\ \A i \in 1..Len(C7_Counts) : C7_Counts'[i] - C7_Counts[i] \in {0, 1}

C8_Estimated(analysis) ==
    pc = "done" /\ out.analysis = analysis /\ ~out.values.isNone /\ out.values.n >= 2

\* C8: the pooled variance estimated by the grouped, the regression and the GLM analyzer
\* (pooled_var_group_structure, pooled_var_regression_structure, pooled_var_glm) on at least
\* two studies with positive weights is a number greater than or equal to 0
C8_PooledVarNonNegative ==
    (\E a \in {"grouped", "regression", "glm"} : C8_Estimated(a))
        => RGe(out.values.pooled_var, Zero)

\* a regression of two studies with different covariate values has run: the line fits both
\* studies, qe = 0 = n - 2 and sum_w = d_sum, and the estimate is 0/0
C8_TwoStudyRegression ==
    /\ C8_Estimated("regression")
    /\ out.values.n = 2
    /\ IsFinite(out.values.b1_slope)
    /\ IsNaN(out.values.pooled_var)

\* a grouped analysis whose error Q is below its degrees of freedom: the estimate is clamped
C8_ClampedCase ==
    /\ C8_Estimated("grouped")
    /\ ~options.random_effects
    /\ RLt(out.values.qe, R(out.values.dfe))
    /\ out.values.pooled_var = Zero

-----------------------------------------------------------------------------
(* C9 *)

\* trim_and_fill_analysis was called with two valid studies or more and has ended
C9_Analysed == pc = "done" /\ out.analysis = "trim_fill" /\ "inp" \in DOMAIN loc

\* what the output block of a kind tells
C9_Block(kind) == out.blocks[CHOOSE i \in 1..Len(out.blocks) : out.blocks[i].kind = kind].arg

\* every study has a study of the same weight at the same distance on the other side of
\* the original mean
C9_Symmetric ==
    \E p \in Perms(loc.inp.n) :
        \A i \in 1..loc.inp.n :
            /\ loc.inp.e_data[p[i]] =
                   RSub(RMul(R(2), loc.original.row.mean_e), loc.inp.e_data[i])
            /\ loc.inp.w_data[p[i]] = loc.inp.w_data[i]

C9_NoneMissing ==
    /\ out.exc = "none"
    /\ C9_Block("missing_studies") = 0
    /\ C9_Block("mean_effects")[2].mean_e = C9_Block("mean_effects")[1].mean_e

\* C9: on a funnel that is symmetric about its weighted mean, trim and fill with any of
\* the three estimators ends with 0 missing studies and a trim and fill mean equal to the
\* original mean
C9_SymmetricFunnelUnchanged == C9_Analysed /\ C9_Symmetric => C9_NoneMissing

\* three studies at equal distances: no study is found missing
C9_ThreeStudyCase ==
    /\ C9_Analysed
    /\ C9_Symmetric
    /\ loc.inp.n = 3
    /\ loc.inp.e_data[1] # loc.inp.e_data[2]
    /\ C9_NoneMissing

-----------------------------------------------------------------------------
(* C10 *)

\* the loop of trim_and_fill_analysis was left at the cap with the estimate still changing
C10_CapReached ==
    /\ C9_Analysed
    /\ loc.iterations = IterationCap
    /\ loc.trim_n # loc.new_trim

\* C10: the loop of the trim and fill analysis runs its body at most 1000 times, and when
\* the cap is reached without convergence no error is raised and the number of missing
\* studies reported is the estimate computed in the last pass
C10_LastIterateReported ==
    /\ pc = "trim_fill_loop" => loc.iterations <= IterationCap
    /\ C10_CapReached => out.exc = "none" /\ C9_Block("missing_studies") = loc.new_trim

\* the cap was reached and the analysis returned
C10_CapCase == C10_CapReached /\ out.exc = "none"

-----------------------------------------------------------------------------
(* C11 *)

\* the effects and weights of the call in the ascending order the sort produced
C11_e == [i \in 1..Len(loc.e) |-> loc.e[out.order[i]]]
C11_w == [i \in 1..Len(loc.w) |-> loc.w[out.order[i]]]

\* the weight accumulated up to and including the k-th study of that order
C11_Running(k) == RSum([i \in 1..k |-> C11_w[i]])

C11_Half == RDiv(RSum(loc.w), R(2))

\* C11: median_effect raises nothing and returns, if the running weight sum over the studies
\* in ascending order of effect equals exactly half the total weight at some study, the
\* average of that study's effect and the next one's, and otherwise the effect of the first
\* study at which the running sum exceeds half the total; for effects [1,2,3,4] with
\* weights [1,1,1,1] it returns 2.5
C11_MedianAsDescribed ==
    (pc = "done" /\ out.fn = "median_effect")
    => /\ out.ret.exc = "none"
       /\ \A i \in 1..(Len(loc.e) - 1) : RLe(C11_e[i], C11_e[i + 1])
       /\ IF \E k \in 1..Len(loc.e) : C11_Running(k) = C11_Half
          THEN \E k \in 1..(Len(loc.e) - 1) :
                  /\ C11_Running(k) = C11_Half
                  /\ out.ret.value = RDiv(RAdd(C11_e[k], C11_e[k + 1]), R(2))
          ELSE \E k \in 1..Len(loc.e) :
                  /\ RGt(C11_Running(k), C11_Half)
                  /\ \A j \in 1..(k - 1) : ~RGt(C11_Running(j), C11_Half)
                  /\ out.ret.value = C11_e[k]
       /\ (loc.e = <<R(1), R(2), R(3), R(4)>> /\ loc.w = <<R(1), R(1), R(1), R(1)>>)
             => out.ret.value = <<5, 2>>

\* the example of the claim has been computed: the boundary case, with the average returned
C11_Example ==
    /\ pc = "done"
    /\ out.fn = "median_effect"
    /\ loc.e = <<R(1), R(2), R(3), R(4)>>
    /\ loc.w = <<R(1), R(1), R(1), R(1)>>
    /\ out.ret.value = <<5, 2>>

-----------------------------------------------------------------------------
(* C12 *)

\* C12: calc_i2 called with Q = 0 and any n >= 2 returns (0, 0, 0) and raises no exception
C12_ZeroQ ==
    (pc = "done" /\ out.fn = "calc_i2" /\ loc.qt = Zero)
    => (/\ out.ret.exc = "none"
        /\ out.ret.i2 = Zero /\ out.ret.lower_i2 = Zero /\ out.ret.upper_i2 = Zero)

\* the case in which C12 is as claimed: Q = 0 given as a Python float
C12_PythonZero ==
    /\ pc = "done" /\ out.fn = "calc_i2" /\ loc.qt = Zero /\ ~loc.is_numpy
    /\ out.ret.exc = "none"
    /\ out.ret.i2 = Zero /\ out.ret.lower_i2 = Zero /\ out.ret.upper_i2 = Zero

-----------------------------------------------------------------------------
(* C13 *)

\* C13: for every Q > 0 and every n >= 2, calc_i2 returns values with
\* 0 <= lower_i2 <= i2 <= upper_i2 <= 100
C13_Ordered ==
    (pc = "done" /\ out.fn = "calc_i2" /\ RGt(loc.qt, Zero))
    => (/\ out.ret.exc = "none"
        /\ RLe(Zero, out.ret.lower_i2)
        /\ RLe(out.ret.lower_i2, out.ret.i2)
        /\ RLe(out.ret.i2, out.ret.upper_i2)
        /\ RLe(out.ret.upper_i2, R(100)))

\* a call with Q above its degrees of freedom whose three values are all different
C13_StrictCase ==
    /\ pc = "done" /\ out.fn = "calc_i2" /\ RGt(loc.qt, R(loc.n - 1))
    /\ RLt(Zero, out.ret.lower_i2)
    /\ RLt(out.ret.lower_i2, out.ret.i2)
    /\ RLt(out.ret.i2, out.ret.upper_i2)

-----------------------------------------------------------------------------
(* C14 *)

\* C14: in bootstrap_means with n requested replicates the sorted list holds n+1 means and
\* the two percentile indices and the two bias-corrected indices used to read it all lie in
\* 0..n, for every alpha and every count f in 0..n of replicate means below the observed mean
C14_IndicesInRange ==
    (pc = "done" /\ out.fn = "bootstrap_means")
    => (/\ out.ret.len_means = loc.bootstrap_n + 1
        /\ \A k \in DOMAIN out.ret.idx : out.ret.idx[k] \in 0..loc.bootstrap_n)

\* a call in which the four indices are in range and the bias-corrected interval is not
\* the percentile interval
C14_InRangeCase ==
    /\ pc = "done" /\ out.fn = "bootstrap_means"
    /\ 0 < loc.f /\ loc.f < loc.bootstrap_n
    /\ out.ret.exc = "none"
    /\ \A k \in DOMAIN out.ret.idx : out.ret.idx[k] \in 0..loc.bootstrap_n
    /\ out.ret.idx.lower_bias_index # out.ret.idx.lower_index

-----------------------------------------------------------------------------
(* C15 *)

\* the rows the GLM analysis called with the current options takes as valid
C15_ValidRows == FilterRows(List([r \in 1..Len(data.rows) |-> ValidGlm(options, r)])).rows

\* the levels of categorical covariate c among the valid rows
C15_Levels(c) == {PyStr(data.rows[C15_ValidRows[i]].cells[c]) : i \in 1..Len(C15_ValidRows)}

C15_Count(c, level) ==
    Cardinality({i \in 1..Len(C15_ValidRows) : PyStr(data.rows[C15_ValidRows[i]].cells[c]) = level})

\* the violations: a covariate with fewer than 2 levels (as <<c, "">>), a level with fewer
\* than 2 observations (as <<c, level>>)
C15_Violations ==
    UNION {(IF Cardinality(C15_Levels(c)) < 2 THEN {<<c, "">>} ELSE {})
           \cup {<<c, l>> : l \in {x \in C15_Levels(c) : C15_Count(c, x) < 2}} :
           c \in Range(options.categorical_vars)}

C15_Listed(v) ==
    \E b \in 1..Len(out.blocks) :
       \/ /\ v[2] = ""
          /\ out.blocks[b].kind = "fewer_than_two_groups"
          /\ out.blocks[b].arg = v[1]
       \/ /\ v[2] # ""
          /\ out.blocks[b].kind = "group_error"
          /\ out.blocks[b].arg[2] = v[1]
          /\ v[2] \in Range(out.blocks[b].arg[1])

\* C15: when the categorical covariates of a GLM analysis on at least two valid rows hold
\* several violations, the analysis aborts (no values) and its output lists every one of them
C15_AllViolationsListed ==
    (/\ pc = "done" /\ out.analysis = "glm"
     /\ Len(C15_ValidRows) >= 2
     /\ Cardinality(C15_Violations) >= 2)
    => (/\ out.exc = "none"
        /\ out.values = NoValues
        /\ \A v \in C15_Violations : C15_Listed(v))

\* a GLM analysis with a single violation, which is listed
C15_SingleViolation ==
    /\ pc = "done" /\ out.analysis = "glm"
    /\ Len(C15_ValidRows) >= 2
    /\ Cardinality(C15_Violations) = 1
    /\ out.values = NoValues
    /\ \A v \in C15_Violations : C15_Listed(v)

-----------------------------------------------------------------------------
(* C16 *)

\* a node together with its ancestors
RECURSIVE C16_Lineage(_, _)
C16_Lineage(t, node) ==
    IF t.ancestor[node] = NoNode THEN {node} ELSE {node} \cup C16_Lineage(t, t.ancestor[node])

\* the deepest node that all the nodes of S descend from or are
C16_CommonAncestor(t, S) ==
    LET shared == {a \in 1..Len(t.name) : \A s \in S : a \in C16_Lineage(t, s)}
    IN CHOOSE a \in shared : \A b \in shared : Cardinality(C16_Lineage(t, a)) >=
                                               Cardinality(C16_Lineage(t, b))

RECURSIVE C16_SumLengths(_, _)
C16_SumLengths(t, S) ==
    IF S = {} THEN Zero
    ELSE LET s == CHOOSE x \in S : TRUE
         IN RAdd(t.branch_length[s], C16_SumLengths(t, S \ {s}))

\* the branch-length distance from the ancestor anc down to node
C16_Distance(t, anc, node) == C16_SumLengths(t, C16_Lineage(t, node) \ C16_Lineage(t, anc))

\* the tip that the i-th included row names
C16_Tip(i) ==
    CHOOSE node \in 1..Len(loc.tree.name) :
        loc.tree.descendants[node] = <<>> /\ loc.tree.name[node] = loc.tip_names[i]

C16_Included == {C16_Tip(i) : i \in 1..Len(loc.tip_names)}

C16_Mrca == C16_CommonAncestor(loc.tree, C16_Included)

\* the largest distance from the most recent common ancestor to an included tip
C16_MaxDepth ==
    LET ds == {C16_Distance(loc.tree, C16_Mrca, tip) : tip \in C16_Included}
    IN CHOOSE d \in ds : \A e \in ds : RGe(d, e)

C16_Expected(i, j) ==
    IF i = j THEN One
    ELSE RDiv(C16_Distance(loc.tree, C16_Mrca,
                           C16_CommonAncestor(loc.tree, {C16_Tip(i), C16_Tip(j)})),
              C16_MaxDepth)

C16_AsDescribed ==
    LET n == Len(loc.tip_names)
        p == out.ret.p
    IN /\ Len(p) = n
       /\ \A i \in 1..n : Len(p[i]) = n
       /\ \A i, j \in 1..n : p[i][j] = p[j][i] /\ p[i][j] = C16_Expected(i, j)

\* C16: whenever phylogenetic_correlation returns for rows that name n different tips, its
\* matrix is n x n and symmetric, has
\* 1 on the diagonal, and off the diagonal holds the distance from the most recent common
\* ancestor of the included tips to the common ancestor of tips i and j divided by the
\* largest distance from that most recent common ancestor to an included tip
C16_CorrelationAsDescribed ==
    (/\ pc = "done" /\ out.fn = "phylogenetic_correlation" /\ out.ret.exc = "none"
     /\ \A i, j \in 1..Len(loc.tip_names) : loc.tip_names[i] = loc.tip_names[j] => i = j)
        => C16_AsDescribed

\* a matrix of two or more distinct tips with a positive correlation that is as described
C16_SharedPathCase ==
    /\ pc = "done" /\ out.fn = "phylogenetic_correlation" /\ out.ret.exc = "none"
    /\ Len(loc.tip_names) >= 2
    /\ \A i, j \in 1..Len(loc.tip_names) : loc.tip_names[i] = loc.tip_names[j] => i = j
    /\ \E i, j \in 1..Len(loc.tip_names) : i # j /\ RGt(out.ret.p[i][j], Zero)
    /\ C16_AsDescribed

-----------------------------------------------------------------------------
(* C17 *)

\* the simple analysis of the same data with the same choice of fixed or random effects
C17_Simple == simple_prepare([options EXCEPT !.structure = "none"])

C17_NoPredictorGlm ==
    /\ pc = "done"
    /\ out.analysis = "glm"
    /\ options.continuous_vars = <<>>
    /\ options.categorical_vars = <<>>

C17_SameValues ==
    IF C17_Simple.values.isNone THEN out.values.isNone
    ELSE /\ ~out.values.isNone
         /\ out.values.beta = <<C17_Simple.values.mean_e>>
         /\ out.values.sigma_b = <<<<C17_Simple.values.var_e>>>>
         /\ out.values.qm = Zero
         /\ out.values.qt = C17_Simple.values.qt
         /\ out.values.df = C17_Simple.values.df
         /\ out.values.pooled_var = C17_Simple.values.pooled_var

-----------------------------------------------------------------------------
(* C18 *)

C18_IsInk(c) == c # " "

\* the Newick string without its blanks, which the format allows between its tokens
C18_Tokens == SelectSeq(loc.tree_str, C18_IsInk)

\* the positions where the text of a leaf starts: after an opening parenthesis or a comma
\* (or at the start), where no clade opens
C18_LeafStarts ==
    {p \in 1..Len(C18_Tokens) :
        /\ p = 1 \/ C18_Tokens[p - 1] \in {"(", ","}
        /\ C18_Tokens[p] # "("}

\* the label that starts at p: up to the next colon or structural symbol
C18_LabelAt(p) ==
    LET q == CHOOSE k \in p..Len(C18_Tokens) :
                 /\ C18_Tokens[k] \in NewickSymbols \cup {":"}
                 /\ \A m \in p..(k - 1) : C18_Tokens[m] \notin NewickSymbols \cup {":"}
    IN SubSeq(C18_Tokens, p, q - 1)

C18_LeafLabels ==
    LET starts == SortedSeq(C18_LeafStarts)
    IN [k \in 1..Len(starts) |-> C18_LabelAt(starts[k])]

C18_AsDescribed ==
    /\ out.exc = "none"
    /\ out.tips = C18_LeafLabels
    /\ out.n_tips = Len(C18_LeafLabels)

\* C18: the tree read_newick_tree returns for a well-formed Newick string has the leaf
\* labels of the string, from left to right, as its tip_names() and their number as n_tips()
C18_TipsAsInString == pc = "tree" => C18_AsDescribed

\* the strings without blanks are read as described
C18_CompactAsInString ==
    (pc = "tree" /\ \A k \in 1..Len(loc.tree_str) : loc.tree_str[k] # " ") => C18_AsDescribed

\* a string of nested clades without blanks that is read as described
C18_CompactCase ==
    /\ pc = "tree"
    /\ \A k \in 1..Len(loc.tree_str) : loc.tree_str[k] # " "
    /\ \E k \in 2..Len(loc.tree_str) : loc.tree_str[k] = "("
    /\ out.n_tips = MaxTips
    /\ C18_AsDescribed

-----------------------------------------------------------------------------
(* C19 *)

\* two correlations of the same value
C19_SameValue(a, b) ==
    /\ a.exc = b.exc
    /\ (a.den2 = Zero) = (b.den2 = Zero)
    /\ a.den2 # Zero =>
         /\ Sign(a.num[1]) = Sign(b.num[1])
         /\ RMul(RSquare(a.num), b.den2) = RMul(RSquare(b.num), a.den2)

\* the correlations between the permuted effect ranks of the last replicate and the
\* covariate ranks, by the coefficient chosen
C19_Described ==
    IF options.cor_test = "tau"
    THEN kendalls_tau_values(loc.rand_e_ranks, loc.prep.x_ranks)
    ELSE {correlation(loc.rand_e_ranks, loc.prep.x_ranks)}

C19_AfterReplicate == pc = "rank_rand" /\ loc.rep > 0

\* C19: in the randomization test of the rank correlation, with Kendall's tau and with
\* Spearman's rho, the statistic of a replicate is the correlation between the permuted
\* effect ranks of that replicate and the unpermuted covariate ranks
C19_ReplicateOfPermutedRanks ==
    C19_AfterReplicate => \E r \in C19_Described : C19_SameValue(loc.rand_r, r)

\* a replicate of Kendall's tau on permuted ranks whose statistic is as described and is
\* not the observed correlation
C19_TauCase ==
    /\ C19_AfterReplicate
    /\ options.cor_test = "tau"
    /\ loc.rand_e_ranks # loc.prep.e_ranks
    /\ ~C19_SameValue(loc.rand_r, loc.prep.values.r)
    /\ \E r \in C19_Described : C19_SameValue(loc.rand_r, r)

-----------------------------------------------------------------------------
(* C20 *)

\* the model Q of the permuted data set of the last replicate of the grouped analysis: its
\* own total Q less its own error Q, under the weights of the analysis
C20_GroupedQm ==
    RSub(mean_effect_var_and_q(loc.rand_e_data, loc.prep.ws_data).qt,
         sum_group_qw(group_stats(loc.prep.group_names, loc.prep.group_data,
                                  loc.rand_e_data, loc.prep.ws_data)))

\* the model Q of the permuted data set of the last replicate of the regression:
\* slope^2 / var(slope) of the weighted least squares fit to the permuted effect sizes
C20_RegressionQm ==
    LET g == mean_effect_var_and_q(loc.rand_e_data, loc.prep.ws_data)
    IN calculate_regression_ma_values(loc.rand_e_data, loc.prep.ws_data, loc.prep.x_data,
                                      g.sum_w, g.sum_ew, g.qt).qm

C20_AfterReplicate == pc \in {"grouped_rand", "regression_rand"} /\ loc.rep > 0

C20_SameNumber(a, b) == a = b \/ (IsNaN(a) /\ IsNaN(b))

\* C20: in the randomization tests of the grouped analysis and of the regression, the
\* statistic of a replicate is the model Q of the permuted data set itself
C20_ReplicateOfPermutedData ==
    C20_AfterReplicate =>
        C20_SameNumber(loc.rand_qm,
                       IF pc = "grouped_rand" THEN C20_GroupedQm ELSE C20_RegressionQm)

\* a replicate of the grouped analysis on studies of unequal weights whose permutation
\* changed the effect sizes and whose statistic is the model Q of the permuted data
C20_GroupedCase ==
    /\ C20_AfterReplicate
    /\ pc = "grouped_rand"
    /\ loc.rand_e_data # loc.prep.e_data
    /\ \E i, j \in 1..Len(loc.prep.ws_data) : loc.prep.ws_data[i] # loc.prep.ws_data[j]
    /\ IsFinite(loc.rand_qm)
    /\ loc.rand_qm = C20_GroupedQm

-----------------------------------------------------------------------------
(* C21 *)

\* the group data of the nested analysis called and the forest built from them
C21_GroupData == nested_input(options).group_data

C21_Forest == find_next_nested_level(0, C21_GroupData, NoParent)

\* the groups partition the rows: no group is empty, no row is in two groups, every row of
\* the parent is in a group, and a group holds the rows of the parent with its label
C21_Partition(groups, rows, group_data) ==
    /\ \A k \in 1..Len(groups) :
          /\ groups[k].includes_rows # <<>>
          /\ Range(groups[k].includes_rows) =
                 {r \in rows : group_data[r][groups[k].index + 1] = groups[k].name}
    /\ \A j, k \in 1..Len(groups) :
          j # k => Range(groups[j].includes_rows) \cap Range(groups[k].includes_rows) = {}
    /\ UNION {Range(groups[k].includes_rows) : k \in 1..Len(groups)} = rows

\* the children of every node of the forest partition the rows of the node
RECURSIVE C21_NodesPartitioned(_, _)
C21_NodesPartitioned(groups, group_data) ==
    \A k \in 1..Len(groups) :
        groups[k].index < Len(group_data[1]) - 1 =>
            /\ C21_Partition(groups[k].children, Range(groups[k].includes_rows), group_data)
            /\ C21_NodesPartitioned(groups[k].children, group_data)

C21_Built == pc = "done" /\ out.analysis = "nested" /\ C21_GroupData # <<>>

\* C21: in the forest built by find_next_nested_level the top-level groups partition the
\* valid rows and the children of every node partition the rows of the node: the row sets
\* of the children are disjoint, none is empty, their union is the row set of the parent,
\* and each child holds the rows of the parent with its label at the next depth
C21_ForestPartitions ==
    C21_Built =>
        /\ C21_Partition(C21_Forest, 1..Len(C21_GroupData), C21_GroupData)
        /\ C21_NodesPartitioned(C21_Forest, C21_GroupData)

\* a forest of three levels with two groups at every level that is a partition throughout
C21_ThreeLevelCase ==
    /\ C21_Built
    /\ Len(options.nested_vars) = 3
    /\ Len(C21_Forest) = 2
    /\ C21_Partition(C21_Forest, 1..Len(C21_GroupData), C21_GroupData)
    /\ C21_NodesPartitioned(C21_Forest, C21_GroupData)

-----------------------------------------------------------------------------
(* C22 *)

\* the cumulative analysis has returned its results
C22_Reported ==
    pc = "done" /\ out.analysis = "cumulative" /\ out.exc = "none" /\ ~out.values.isNone

\* the valid rows as the filtering loop collected them, in the order of the data source
C22_Source == cumulative_input(options).tmp_data

\* the stable ascending order by the value of the order column: of two rows, the one with
\* the smaller order value comes first, and with equal order values the one that is
\* first in the data source
C22_StableOrder ==
    CHOOSE p \in Perms(Len(C22_Source)) :
        \A i, j \in 1..Len(C22_Source) :
            i < j => \/ value_lt(C22_Source[p[i]][1], C22_Source[p[j]][1])
                     \/ (C22_Source[p[i]][1] = C22_Source[p[j]][1] /\ p[i] < p[j])

\* the studies are in the stable order
C22_InStableOrder ==
    /\ out.values.e_data = List([i \in 1..Len(C22_Source) |-> R(C22_Source[C22_StableOrder[i]][2])])
    /\ out.values.v_data = List([i \in 1..Len(C22_Source) |-> R(C22_Source[C22_StableOrder[i]][3])])

\* C22: the cumulative analysis orders the valid studies by ascending value of the order
\* column with a stable sort: studies with equal order values keep their relative order
\* from the data source, whatever their effect sizes and variances
C22_StableSort == C22_Reported => C22_InStableOrder

\* studies with the same order value and different effect sizes that are found in the
\* order of the data source
C22_TieCase ==
    /\ C22_Reported
    /\ \E i, j \in 1..Len(C22_Source) :
          /\ C22_Source[i][1] = C22_Source[j][1]
          /\ C22_Source[i][2] # C22_Source[j][2]
    /\ C22_InStableOrder

-----------------------------------------------------------------------------
(* C23 *)

\* the first k studies of the cumulative analysis as the input of the simple analysis
C23_Prefix(k) ==
    [n |-> k, blocks |-> <<>>,
     e_data |-> SubSeq(out.values.e_data, 1, k),
     v_data |-> SubSeq(out.values.v_data, 1, k),
     w_data |-> List([i \in 1..k |-> RRecip(out.values.v_data[i])])]

\* the row agrees with the simple analysis of the first k studies
C23_Agrees(row, k) ==
    LET s == simple_computed(options, C23_Prefix(k)).values IN
    /\ row.ns = k
    /\ row.mean_e = s.mean_e
    /\ row.var_e = s.var_e
    /\ row.qt = s.qt
    /\ row.df = s.df
    /\ \E order \in ArgSorts(C23_Prefix(k).e_data) :
          simple_median(options, C23_Prefix(k).e_data, C23_Prefix(k).w_data,
                        C23_Prefix(k).v_data, s.pooled_var, order) =
              [exc |-> "none", value |-> row.median_e]

C23_AllAgree ==
    /\ Len(out.values.cumulative) = out.values.n - 1
    /\ \A k \in 1..Len(out.values.cumulative) : C23_Agrees(out.values.cumulative[k], k + 1)

\* C23: the cumulative analysis of n valid studies reports n - 1 rows, for the prefixes of
\* 2, 3, ..., n studies in that order, and the row of the prefix of k studies holds the
\* mean, median, variance, Q and degrees of freedom the simple analysis reports for those
\* k studies, under fixed and under random effects
C23_PrefixesAsSimple == C22_Reported => C23_AllAgree

\* three studies under random effects with a positive pooled variance, every row as the
\* simple analysis has it
C23_RandomCase ==
    /\ C22_Reported
    /\ options.random_effects
    /\ out.values.n = 3
    /\ RGt(out.values.cumulative[2].pooled_var, Zero)
    /\ C23_AllAgree

-----------------------------------------------------------------------------
(* C24 *)

\* a pass of the loop of the trim and fill analysis has ended with an estimate
C24_Estimated == pc = "trim_fill_loop" /\ loc.iterations > 0

\* the analysis was left by the exception of an estimator: the square root of a negative
\* number under Q0, the rounding of nan under R0
C24_EstimatorFailed == pc = "done" /\ out.analysis = "trim_fill" /\ out.exc = "ValueError"

\* C24: for every input with two valid studies or more and every estimator, each pass of
\* the trim and fill loop gives an integer estimate k with 0 <= k <= n - 1: no estimator
\* fails (the argument of the square root of Q0 is never negative) and at least one study
\* remains after the trim
C24_EstimateDefined ==
    /\ C24_Estimated => loc.new_trim \in 0..(loc.inp.n - 1)
    /\ ~C24_EstimatorFailed

\* a pass under Q0 that estimates a missing study
C24_Q0Case ==
    /\ C24_Estimated
    /\ options.k_estimator = "Q"
    /\ loc.inp.n = 3
    /\ loc.new_trim = 1


-----------------------------------------------------------------------------
(* C25 *)

\* a pass of the loop has ended with an estimate of the number of missing studies
C25_Pass == pc = "trim_fill_loop" /\ loc.iterations > 0

\* the numerator of L0 over its denominator 2n - 1, and four times the radicand of Q0
C25_L0Num == 4 * loc.t_n - loc.inp.n * (loc.inp.n + 1)

C25_Q0Radicand == 8 * loc.inp.n * loc.inp.n - 16 * loc.t_n + 1

\* k is the integer part (the floor) of the value of the chosen estimator
C25_IsFloor(k) ==
    LET n == loc.inp.n
        c == n - k
    IN IF options.k_estimator = "R" THEN k = loc.gamma - 1
       ELSE IF options.k_estimator = "L"
       THEN k * (2 * n - 1) <= C25_L0Num /\ C25_L0Num < (k + 1) * (2 * n - 1)
       ELSE /\ 2 * c - 1 >= 0
            /\ C25_Q0Radicand <= (2 * c - 1) * (2 * c - 1)
            /\ (2 * c - 3 < 0 \/ (2 * c - 3) * (2 * c - 3) < C25_Q0Radicand)

\* k is the integer nearest to the value of the chosen estimator
C25_IsNearest(k) ==
    LET n == loc.inp.n
        c == n - k
    IN IF options.k_estimator = "R" THEN k = loc.gamma - 1
       ELSE IF options.k_estimator = "L"
       THEN 2 * Abs(k * (2 * n - 1) - C25_L0Num) <= 2 * n - 1
       ELSE /\ c >= 0
            /\ C25_Q0Radicand <= 4 * c * c
            /\ (c - 1 <= 0 \/ 4 * (c - 1) * (c - 1) <= C25_Q0Radicand)

\* the integers an estimator can round to
C25_Range == (0 - (loc.inp.n + 1) * (loc.inp.n + 1))..(loc.inp.n + 1)

\* C25: in each pass of the trim and fill loop the new estimate of k is the value of the
\* chosen estimator (R0, L0 or Q0) rounded down to an integer and then clamped to be at
\* least 0
C25_RoundedDown ==
    C25_Pass => \E k \in C25_Range : C25_IsFloor(k) /\ loc.new_trim = PyMaxInt(0, k)

\* C25, amended: in each pass of the trim and fill loop the new estimate of k is the value
\* of the chosen estimator (R0, L0 or Q0) rounded to the nearest integer and then clamped
\* to be at least 0
C25_RoundedToNearest ==
    C25_Pass => \E k \in C25_Range : C25_IsNearest(k) /\ loc.new_trim = PyMaxInt(0, k)

\* a pass whose estimator value lies strictly between the estimate less one half and the
\* estimate: L0 of two thirds gives one missing study
C25_HalfUpCase ==
    /\ C25_Pass
    /\ options.k_estimator = "L"
    /\ loc.new_trim >= 1
    /\ loc.new_trim * (2 * loc.inp.n - 1) > C25_L0Num


-----------------------------------------------------------------------------
(* C26 *)

\* the first k rows of the sorted table hold the k largest of the n original effect sizes
\* (right) or the k smallest
C26_MostExtreme(e, k, n, right) ==
    \A i \in 1..k : \A j \in (k + 1)..n :
        IF right THEN ~RLt(e[i], e[j]) ELSE ~RGt(e[i], e[j])

\* the most recent pass found the sum of the positive ranks above that of the negative ones
C26_LastDecisionRight == loc.t_pos > loc.t_neg

\* a step that trims in a pass after the first, or that fills in the missing studies
C26_TrimOrFill ==
    /\ pc = "trim_fill_loop"
    /\ loc.iterations >= 1
    /\ \/ pc' = "trim_fill_loop" /\ loc'.iterations = loc.iterations + 1
       \/ pc' = "done" /\ trim_fill_loop_ended(LoopState)

\* C26: in every pass of the trim and fill loop after the first, and in the final fill
\* step, the k studies that are trimmed (or mirrored) are the most extreme ones on the side
\* of the most recent skew decision: the k largest effects if that decision found the
\* positive rank sum greater than the negative rank sum, the k smallest otherwise
C26_TrimsDecidedSide ==
    [][C26_TrimOrFill =>
           C26_MostExtreme(loc'.tmp_data.e, loc'.trim_n, loc.inp.n, C26_LastDecisionRight)]_vars

\* a pass after the first has trimmed a study while an earlier pass had found a left skew
C26_LaterPassCase ==
    /\ pc = "trim_fill_loop"
    /\ loc.iterations >= 2
    /\ loc.trim_n >= 1
    /\ ~loc.skew_right


-----------------------------------------------------------------------------
(* C27 *)

\* the analysis has filled in the missing studies and returned
C27_Filled ==
    /\ pc = "done"
    /\ out.analysis = "trim_fill"
    /\ out.exc = "none"
    /\ loc.iterations > 0

\* the studies of columns e, w and v as a bag of triples
C27_Studies(e, w, v) ==
    LET Count(t) == Cardinality({i \in 1..Len(e) : <<e[i], w[i], v[i]>> = t})
    IN [t \in {<<e[i], w[i], v[i]>> : i \in 1..Len(e)} |-> Count(t)]

\* the mean, under the model of the analysis, of the studies of the final table that are
\* left when its first k studies are trimmed
C27_MeanOfRest ==
    LET t == loc.tmp_data
        n == loc.inp.n
        k == loc.trim_n
    IN trimmed_mean(options, SubSeq(t.e, k + 1, n), SubSeq(t.w, k + 1, n),
                    SubSeq(t.v, k + 1, n), n - k - 1)

\* the row of the filled data set in the table of means
C27_FilledRow ==
    LET b == SelectSeq(out.blocks, LAMBDA x : x.kind = "mean_effects")
    IN b[1].arg[2]

-----------------------------------------------------------------------------
(* C28 *)

\* a nested analysis has passed its validation and reported its heterogeneity partition
C28_Reported ==
    /\ pc = "done"
    /\ out.analysis = "nested"
    /\ out.exc = "none"
    /\ ~out.values.isNone

\* the rows the analysis keeps and the labels of a row down to nesting level d
C28_ValidRows == FilterRows(List([r \in 1..Len(data.rows) |-> ValidNested(options, r)])).rows

C28_Path(r, d) == [k \in 1..d |-> PyStr(data.rows[r].cells[options.nested_vars[k]])]

\* the number of groups at nesting level d, and 1 above the top level
C28_GroupCount(d) ==
    IF d = 0 THEN 1
    ELSE Cardinality({C28_Path(C28_ValidRows[i], d) : i \in 1..Len(C28_ValidRows)})

\* the degrees of freedom of the model lines added up
C28_ModelDf == SumSeq([i \in 1..Len(out.values.model_het_values) |->
                          out.values.model_het_values[i].df])

\* C28: in a nested analysis that passes validation the degrees of freedom are additive:
\* the model degrees of freedom of each nesting level are the number of groups at that
\* level minus the number of groups at the level above (1 above the top level), the error
\* degrees of freedom are n minus the number of deepest-level groups, and together they
\* sum to n - 1, the degrees of freedom of Q_total
C28_DfAdditive ==
    C28_Reported =>
        LET n_levels == Len(options.nested_vars) IN
        /\ \A i \in 1..n_levels :
               out.values.model_het_values[i].df = C28_GroupCount(i) - C28_GroupCount(i - 1)
        /\ out.values.error_het_values.df = Len(C28_ValidRows) - C28_GroupCount(n_levels)
        /\ C28_ModelDf + out.values.error_het_values.df = Len(C28_ValidRows) - 1
        /\ out.values.global_values.df = Len(C28_ValidRows) - 1

\* six studies in three deepest-level groups under two top-level groups
C28_ThreeGroupCase ==
    /\ C28_Reported
    /\ Len(C28_ValidRows) = 6
    /\ C28_GroupCount(1) = 2
    /\ C28_GroupCount(2) = 3


-----------------------------------------------------------------------------
(* C29 *)

\* the second fixed point has been given its starting value
C29_Started == pc = "second_loop" /\ loc.iters = 0

\* the sums under the weights 1/(variance + pooled variance of the original data)
C29_Sums == random_weight_sums(loc.effects, loc.variances, loc.pooled_var)

\* C29: in rosenberg_failsafe_random the starting value of the second fixed point (n
\* studies of average weight) is computed only from the random-effects weights
\* 1/(variance + pooled variance of the original data), for both the weighted effect sum
\* and the weight sum: no value left behind by the loop of the first estimate enters it
C29_SecondStartFresh ==
    C29_Started =>
        /\ loc.sum_erw = C29_Sums.sum_erw
        /\ loc.sum_rw = C29_Sums.sum_rw
        /\ loc.k = clamp_k(failsafe_k(C29_Sums.sum_erw, C29_Sums.sum_rw, t_ppf_square(loc.n)))

\* the second fixed point is started after a first loop that took new weights
C29_NewWeightsCase ==
    /\ C29_Started
    /\ RGt(loc.pooled_new, Zero)
    /\ loc.pooled_new # loc.pooled_var


-----------------------------------------------------------------------------
(* C30 *)

\* how often the value object x is in the list s
C30_Count(s, x) == Cardinality({i \in 1..Len(s) : s[i] = x})

\* the value object x is the one the dictionary holds for its cell
C30_Stored(x) ==
    /\ <<data.objects[x].row, data.objects[x].col>> \in DOMAIN data.data
    /\ data.data[<<data.objects[x].row, data.objects[x].col>>] = x

\* C30: after any sequence of add_row, add_col, add_value, delete_value and replace_value
\* calls the cell dictionary, the value lists of the rows and those of the columns agree:
\* the value stored for a cell (r, c) is exactly once in the list of row r and exactly once
\* in the list of column c, and no list holds a value that is not the one stored for its
\* cell
C30_ListsAgreeWithCells ==
    /\ \A key \in DOMAIN data.data :
          /\ C30_Count(data.rows[key[1]], data.data[key]) = 1
          /\ C30_Count(data.cols[key[2]], data.data[key]) = 1
    /\ \A r \in 1..Len(data.rows) : \A i \in 1..Len(data.rows[r]) :
          data.objects[data.rows[r][i]].row = r /\ C30_Stored(data.rows[r][i])
    /\ \A c \in 1..Len(data.cols) : \A i \in 1..Len(data.cols[c]) :
          data.objects[data.cols[c][i]].col = c /\ C30_Stored(data.cols[c][i])

\* a cell has been given a second value by replace_value
C30_ReplacedCase ==
    /\ out.fn = "replace_value"
    /\ Len(data.objects) >= 2
    /\ \E key \in DOMAIN data.data : data.data[key] = Len(data.objects) /\ data.data[key] >= 2
    /\ \E x \in 1..(Len(data.objects) - 1) :
          /\ data.objects[x].row = data.objects[Len(data.objects)].row
          /\ data.objects[x].col = data.objects[Len(data.objects)].col

=============================================================================
